---- MODULE Spec2Model ----
(***************************************************************************)
(* A model of the Jira-AI-Agent-Demo backend (src/app.py, src/utils.py,    *)
(* src/schema.py): the normalizers that coerce LLM JSON into the schema,   *)
(* the baseline (non-AI) generators, and the request handlers that share   *)
(* STATE, LAST_AI_ENGINE and LAST_AI_ERROR.                                *)
(*                                                                         *)
(* Python values are tagged records [t, n, s, l, d]:                       *)
(*   t = "None" | "int" | "bool" | "float" | "str" | "list" | "dict"       *)
(*   n : the number of an int, 0/1 of a bool                               *)
(*   s : the characters of a str (a sequence of one-character strings),    *)
(*       or the repr text of a float                                       *)
(*   l : the items of a list                                               *)
(*   d : the items of a dict, a sequence of <<key, value>> pairs in        *)
(*       insertion order, each key a Python value itself                   *)
(***************************************************************************)
EXTENDS Integers, Sequences, FiniteSets, TLC

VARIABLES
    STATE_,           \* app.py:73   STATE = {"features": [], "stories": [], "tests": []}
                      \* (STATE is a reserved word of TLA+)
    LAST_AI_ENGINE,   \* app.py:74
    LAST_AI_ERROR,    \* app.py:75
    gemini_model,     \* app.py:43-49 whether _gemini_model is a client or None
    response,         \* what the handler that ran last returned
    last,             \* history: per kind, the output of the last successful call
    args,             \* the arguments of the function under study
    ret,              \* its return value
    ret2              \* the return value of a second application

vars == <<STATE_, LAST_AI_ENGINE, LAST_AI_ERROR, gemini_model, response, last,
          args, ret, ret2>>

appVars == <<STATE_, LAST_AI_ENGINE, LAST_AI_ERROR, gemini_model, response, last>>
fnVars == <<args, ret, ret2>>

(***************************************************************************)
(* Bounds of the model.                                                    *)
(***************************************************************************)
MaxStrLen == 3
MaxPoints == 16

(***************************************************************************)
(* Python values.                                                          *)
(***************************************************************************)
PyNone == [t |-> "None", n |-> 0, s |-> <<>>, l |-> <<>>, d |-> <<>>]
PyInt(k) == [t |-> "int", n |-> k, s |-> <<>>, l |-> <<>>, d |-> <<>>]
PyBool(b) == [t |-> "bool", n |-> IF b THEN 1 ELSE 0, s |-> <<>>, l |-> <<>>, d |-> <<>>]
PyFloat(text) == [t |-> "float", n |-> 0, s |-> text, l |-> <<>>, d |-> <<>>]
PyStr(chars) == [t |-> "str", n |-> 0, s |-> chars, l |-> <<>>, d |-> <<>>]
PyList(items) == [t |-> "list", n |-> 0, s |-> <<>>, l |-> items, d |-> <<>>]
PyDict(pairs) == [t |-> "dict", n |-> 0, s |-> <<>>, l |-> <<>>, d |-> pairs]

\* bool(v): Python truthiness, as the `or` chains and `if not x` use it.
Truthy(v) ==
    CASE v.t = "None" -> FALSE
      [] v.t = "int" -> v.n # 0
      [] v.t = "bool" -> v.n = 1
      [] v.t = "float" -> v.s \notin {<<"0", ".", "0">>, <<"-", "0", ".", "0">>}
      [] v.t = "str" -> v.s # <<>>
      [] v.t = "list" -> v.l # <<>>
      [] v.t = "dict" -> v.d # <<>>

\* a or b
Or(a, b) == IF Truthy(a) THEN a ELSE b

\* d.get(key): the value under key, None when d has no such key.
RECURSIVE GetPairs(_, _)
GetPairs(pairs, key) ==
    IF pairs = <<>> THEN PyNone
    ELSE IF Head(pairs)[1] = key THEN Head(pairs)[2]
    ELSE GetPairs(Tail(pairs), key)

Get(v, name) == GetPairs(v.d, PyStr(name))

HasKey(v, name) == \E i \in 1..Len(v.d) : v.d[i][1] = PyStr(name)

\* d[key] = value: replaces the value in place, or appends a new item.
SetItem(v, key, value) ==
    IF \E i \in 1..Len(v.d) : v.d[i][1] = key
    THEN PyDict([i \in 1..Len(v.d) |->
                    IF v.d[i][1] = key THEN <<key, value>> ELSE v.d[i]])
    ELSE PyDict(Append(v.d, <<key, value>>))

(***************************************************************************)
(* Strings: str.strip, str.lower, substring test, str.join, str(int),      *)
(* int(str), and the repr that str() gives a list or a dict.               *)
(***************************************************************************)
Whitespace == {" "}

RECURSIVE lstrip(_)
lstrip(cs) ==
    IF cs # <<>> /\ Head(cs) \in Whitespace THEN lstrip(Tail(cs)) ELSE cs

RECURSIVE rstrip(_)
rstrip(cs) ==
    IF cs # <<>> /\ cs[Len(cs)] \in Whitespace
    THEN rstrip(SubSeq(cs, 1, Len(cs) - 1)) ELSE cs

strip(cs) == rstrip(lstrip(cs))

UpperLetters == <<"A", "B", "C", "D", "E", "F", "G", "H", "I", "J", "K", "L", "M",
                  "N", "O", "P", "Q", "R", "S", "T", "U", "V", "W", "X", "Y", "Z">>

LowerLetters == <<"a", "b", "c", "d", "e", "f", "g", "h", "i", "j", "k", "l", "m",
                  "n", "o", "p", "q", "r", "s", "t", "u", "v", "w", "x", "y", "z">>

LowerChar(c) ==
    IF \E i \in 1..26 : UpperLetters[i] = c
    THEN LowerLetters[CHOOSE i \in 1..26 : UpperLetters[i] = c]
    ELSE c

lower(cs) == [i \in 1..Len(cs) |-> LowerChar(cs[i])]

\* k in t
contains(t, k) ==
    \E i \in 1..(Len(t) - Len(k) + 1) : SubSeq(t, i, i + Len(k) - 1) = k

RECURSIVE join(_, _)
join(sep, parts) ==
    IF parts = <<>> THEN <<>>
    ELSE IF Len(parts) = 1 THEN parts[1]
    ELSE parts[1] \o sep \o join(sep, Tail(parts))

Digits == <<"0", "1", "2", "3", "4", "5", "6", "7", "8", "9">>

DigitChars == {Digits[i] : i \in 1..10}

DigitValue(c) == (CHOOSE i \in 1..10 : Digits[i] = c) - 1

RECURSIVE NatToStr(_)
NatToStr(k) ==
    IF k < 10 THEN <<Digits[k + 1]>>
    ELSE NatToStr(k \div 10) \o <<Digits[(k % 10) + 1]>>

\* str(k) of an int
IntToStr(k) == IF k < 0 THEN <<"-">> \o NatToStr(0 - k) ELSE NatToStr(k)

RECURSIVE DigitsToNat(_)
DigitsToNat(cs) ==
    IF cs = <<>> THEN 0
    ELSE 10 * DigitsToNat(SubSeq(cs, 1, Len(cs) - 1)) + DigitValue(cs[Len(cs)])

AllDigits(cs) == cs # <<>> /\ \A i \in 1..Len(cs) : cs[i] \in DigitChars

\* int(text): an optional sign and decimal digits between optional whitespace;
\* anything else raises ValueError.
ParseInt(text) ==
    LET cs == strip(text)
        signed == cs # <<>> /\ Head(cs) \in {"+", "-"}
        body == IF signed THEN Tail(cs) ELSE cs
    IN  IF AllDigits(body)
        THEN [exc |-> "",
              n |-> IF signed /\ Head(cs) = "-" THEN 0 - DigitsToNat(body)
                    ELSE DigitsToNat(body)]
        ELSE [exc |-> "ValueError", n |-> 0]

\* f"{k:03d}" for k >= 0
Format03d(k) ==
    LET ds == NatToStr(k)
    IN  IF Len(ds) >= 3 THEN ds ELSE [i \in 1..(3 - Len(ds)) |-> "0"] \o ds

\* repr(v) and str(v).  repr quotes a str; str does not.
RECURSIVE repr(_)
RECURSIVE reprItems(_)
RECURSIVE reprPairs(_)
repr(v) ==
    CASE v.t = "None" -> <<"N", "o", "n", "e">>
      [] v.t = "int" -> IntToStr(v.n)
      [] v.t = "bool" -> IF v.n = 1 THEN <<"T", "r", "u", "e">>
                         ELSE <<"F", "a", "l", "s", "e">>
      [] v.t = "float" -> v.s
      [] v.t = "str" -> <<"'">> \o v.s \o <<"'">>
      [] v.t = "list" -> <<"[">> \o reprItems(v.l) \o <<"]">>
      [] v.t = "dict" -> <<"{">> \o reprPairs(v.d) \o <<"}">>

reprItems(items) ==
    IF items = <<>> THEN <<>>
    ELSE IF Len(items) = 1 THEN repr(items[1])
    ELSE repr(items[1]) \o <<",", " ">> \o reprItems(Tail(items))

reprPairs(pairs) ==
    IF pairs = <<>> THEN <<>>
    ELSE LET one == repr(pairs[1][1]) \o <<":", " ">> \o repr(pairs[1][2])
         IN  IF Len(pairs) = 1 THEN one
             ELSE one \o <<",", " ">> \o reprPairs(Tail(pairs))

str(v) == IF v.t = "str" THEN v.s ELSE repr(v)

\* All strings over an alphabet up to a length.
RECURSIVE StringsUpTo(_, _)
StringsUpTo(alphabet, k) ==
    IF k = 0 THEN {<<>>}
    ELSE LET shorter == StringsUpTo(alphabet, k - 1)
         IN  shorter \cup {Append(cs, c) : cs \in shorter, c \in alphabet}

(***************************************************************************)
(* _to_fib (app.py:193-202).                                               *)
(***************************************************************************)
_FIB_ALLOWED == <<1, 2, 3, 5, 8, 13>>

Abs(k) == IF k < 0 THEN 0 - k ELSE k

\* min(_FIB_ALLOWED, key=lambda v: (abs(v - n), v))
MinByDistance(allowed, n) ==
    LET vs == {allowed[i] : i \in 1..Len(allowed)}
    IN  CHOOSE v \in vs : \A w \in vs :
            \/ Abs(v - n) < Abs(w - n)
            \/ Abs(v - n) = Abs(w - n) /\ v <= w

_to_fib(value) ==
    LET parsed == ParseInt(strip(str(value)))
    IN  IF parsed.exc # "" THEN 3 ELSE MinByDistance(_FIB_ALLOWED, parsed.n)

(***************************************************************************)
(* The state of the service before any request (app.py:73-75), and the     *)
(* frame of a function under study before it is called.                    *)
(***************************************************************************)
None == "<None>"

NoResponse == [kind |-> "none"]

NotCalled == [called |-> FALSE, op |-> "", failed |-> FALSE]

AppInit ==
    /\ STATE_ = [features |-> <<>>, stories |-> <<>>, tests |-> <<>>]
    /\ LAST_AI_ENGINE = "unknown"
    /\ LAST_AI_ERROR = None
    /\ response = NoResponse
    /\ last = [features |-> <<>>, stories |-> <<>>, tests |-> <<>>, call |-> NotCalled]

(***************************************************************************)
(* SpecFib: _to_fib applied to the storyPoints values an LLM item can      *)
(* carry.                                                                  *)
(***************************************************************************)
FibAlphabet == {"1", "4", "5", ".", "-", " ", "x"}

FibValues ==
    {PyInt(k) : k \in -3..MaxPoints}
    \cup {PyStr(cs) : cs \in StringsUpTo(FibAlphabet, MaxStrLen)}
    \cup {PyNone, PyBool(TRUE), PyFloat(<<"4", ".", "5">>), PyFloat(<<"8", ".", "0">>),
          PyList(<<PyInt(5)>>), PyDict(<<>>)}

InitFib ==
    /\ AppInit
    /\ gemini_model = FALSE
    /\ args \in {[value |-> v] : v \in FibValues}
    /\ ret = NotCalled
    /\ ret2 = NotCalled

CallToFib ==
    /\ ~ret.called
    /\ ret' = [called |-> TRUE, val |-> _to_fib(args.value)]
    /\ UNCHANGED <<appVars, args, ret2>>

NextFib == CallToFib

SpecFib == InitFib /\ [][NextFib]_vars

\* A decimal numeral: an optional sign, digits, and optionally a point and digits.
DecimalParts(cs) ==
    LET signed == cs # <<>> /\ Head(cs) \in {"+", "-"}
        body == IF signed THEN Tail(cs) ELSE cs
        dots == {i \in 1..Len(body) : body[i] = "."}
        dot == IF dots = {} THEN Len(body) + 1 ELSE CHOOSE i \in dots : TRUE
        whole == SubSeq(body, 1, dot - 1)
        frac == SubSeq(body, dot + 1, Len(body))
    IN  [ok |-> /\ AllDigits(whole)
                /\ Cardinality(dots) <= 1
                /\ (dots # {} => AllDigits(frac)),
         neg |-> signed /\ Head(cs) = "-",
         whole |-> whole,
         frac |-> frac]

RECURSIVE Pow10(_)
Pow10(k) == IF k = 0 THEN 1 ELSE 10 * Pow10(k - 1)

FibSet == {1, 2, 3, 5, 8, 13}

\* The member of FibSet nearest to num/den, the lower one on a tie.
NearestFib(num, den) ==
    CHOOSE m \in FibSet : \A w \in FibSet :
        \/ Abs(m * den - num) < Abs(w * den - num)
        \/ Abs(m * den - num) = Abs(w * den - num) /\ m <= w

NearestFibOfNumeral(cs) ==
    LET p == DecimalParts(cs)
        mag == DigitsToNat(p.whole \o p.frac)
    IN  NearestFib(IF p.neg THEN 0 - mag ELSE mag, Pow10(Len(p.frac)))

\* C5: for every number supplied as storyPoints (an integer, or a string
\* representing a number) _to_fib returns the member of {1,2,3,5,8,13} nearest
\* to it, the lower member on a tie, so the result is in the set and a member
\* maps to itself; for a non-numeric string or null it returns 3.
C5_ToFibNearest ==
    ret.called =>
        LET v == args.value
        IN  /\ ret.val \in FibSet
            /\ v.t = "int" => ret.val = NearestFib(v.n, 1)
            /\ (v.t = "int" /\ v.n \in FibSet) => ret.val = v.n
            /\ (v.t = "str" /\ DecimalParts(strip(v.s)).ok)
                   => ret.val = NearestFibOfNumeral(strip(v.s))
            /\ (v.t = "str" /\ ~DecimalParts(strip(v.s)).ok) => ret.val = 3
            /\ v.t = "None" => ret.val = 3

\* What _to_fib does keep of C5: the claim with "a string representing a
\* number" read as "a string representing an integer"; every other string,
\* a decimal one included, gives 3.
C5_ToFibNearestOnIntegers ==
    ret.called =>
        LET v == args.value
            p == DecimalParts(strip(v.s))
        IN  /\ ret.val \in FibSet
            /\ v.t = "int" => ret.val = NearestFib(v.n, 1)
            /\ (v.t = "int" /\ v.n \in FibSet) => ret.val = v.n
            /\ (v.t = "str" /\ p.ok /\ p.frac = <<>> /\ "." \notin {v.s[i] : i \in 1..Len(v.s)})
                   => ret.val = NearestFibOfNumeral(strip(v.s))
            /\ (v.t = "str" /\ ~(p.ok /\ "." \notin {v.s[i] : i \in 1..Len(v.s)}))
                   => ret.val = 3
            /\ v.t = "None" => ret.val = 3

(***************************************************************************)
(* Exceptions: a function that can raise returns [exc, val]; exc is the    *)
(* exception's class ("" when it returned), standing for str(e).           *)
(***************************************************************************)
Return(v) == [exc |-> "", val |-> v]

Raise(e) == [exc |-> e, val |-> PyNone]

\* dict(x or {}) (app.py:227, app.py:339).  dict() of a non-empty str, of a
\* number, or of a list with an item that is no key/value pair raises.
RECURSIVE DictFromItems(_, _)
DictFromItems(items, acc) ==
    IF items = <<>> THEN Return(acc)
    ELSE LET e == Head(items)
             size == CASE e.t = "str" -> Len(e.s)
                       [] e.t = "list" -> Len(e.l)
                       [] e.t = "dict" -> Len(e.d)
                       [] OTHER -> -1
             pair == CASE e.t = "str" -> <<PyStr(<<e.s[1]>>), PyStr(<<e.s[2]>>)>>
                       [] e.t = "list" -> <<e.l[1], e.l[2]>>
                       [] e.t = "dict" -> <<e.d[1][1], e.d[2][1]>>
         IN  IF size = -1 THEN Raise("TypeError")
             ELSE IF size # 2 THEN Raise("ValueError")
             ELSE IF pair[1].t \in {"list", "dict"} THEN Raise("TypeError")
             ELSE DictFromItems(Tail(items), SetItem(acc, pair[1], pair[2]))

DictOrEmpty(x) ==
    IF ~Truthy(x) THEN Return(PyDict(<<>>))
    ELSE CASE x.t = "dict" -> Return(x)
           [] x.t = "list" -> DictFromItems(x.l, PyDict(<<>>))
           [] x.t = "str" -> Raise("ValueError")
           [] OTHER -> Raise("TypeError")

(***************************************************************************)
(* schema.py: the pydantic models.  An instance is a record tagged with    *)
(* its class; a constructor validates its keyword arguments (a dict) and   *)
(* raises ValidationError; model_dump turns an instance into a dict.       *)
(* A str field takes a str only, an Optional[str] field a str or None.     *)
(***************************************************************************)
IsStr(v) == v.t = "str"

IsOptStr(v) == v.t \in {"str", "None"}

KeysAreStr(kw) == \A i \in 1..Len(kw.d) : kw.d[i][1].t = "str"

\* schema.py:4-7
GivenWhenThen(kw) ==
    IF ~KeysAreStr(kw) THEN Raise("TypeError")
    ELSE IF /\ IsStr(Get(kw, <<"g", "i", "v", "e", "n">>))
            /\ IsStr(Get(kw, <<"w", "h", "e", "n">>))
            /\ IsStr(Get(kw, <<"t", "h", "e", "n">>))
    THEN Return([t |-> "GivenWhenThen", given |-> Get(kw, <<"g", "i", "v", "e", "n">>),
                 when |-> Get(kw, <<"w", "h", "e", "n">>), then |-> Get(kw, <<"t", "h", "e", "n">>)])
    ELSE Raise("ValidationError")

\* schema.py:9-12
StoryDescription(kw) ==
    IF ~KeysAreStr(kw) THEN Raise("TypeError")
    ELSE IF /\ IsStr(Get(kw, <<"a", "s", "A">>))
            /\ IsStr(Get(kw, <<"i", "W", "a", "n", "t">>))
            /\ IsStr(Get(kw, <<"s", "o", "T", "h", "a", "t">>))
    THEN Return([t |-> "StoryDescription", asA |-> Get(kw, <<"a", "s", "A">>),
                 iWant |-> Get(kw, <<"i", "W", "a", "n", "t">>), soThat |-> Get(kw, <<"s", "o", "T", "h", "a", "t">>)])
    ELSE Raise("ValidationError")

\* A field of a model class takes an instance of the class or a dict to validate.
AsModel(class, v) ==
    IF v.t = class THEN Return(v)
    ELSE IF v.t # "dict" THEN Raise("ValidationError")
    ELSE IF class = "GivenWhenThen" THEN GivenWhenThen(v)
    ELSE StoryDescription(v)

\* schema.py:14-20
Story(kw) ==
    LET desc == AsModel("StoryDescription", Get(kw, <<"d", "e", "s", "c", "r", "i", "p", "t", "i", "o", "n">>))
        ac == Get(kw, <<"a", "c", "c", "e", "p", "t", "a", "n", "c", "e", "C", "r", "i", "t", "e", "r", "i", "a">>)
        sp == Get(kw, <<"s", "t", "o", "r", "y", "P", "o", "i", "n", "t", "s">>)
    IN  IF ~KeysAreStr(kw) THEN Raise("TypeError")
        ELSE IF /\ IsOptStr(Get(kw, <<"i", "d">>))
                /\ IsOptStr(Get(kw, <<"f", "e", "a", "t", "u", "r", "e", "I", "d">>))
                /\ IsStr(Get(kw, <<"t", "i", "t", "l", "e">>))
                /\ desc.exc = ""
                /\ ac.t = "list"
                /\ \A i \in 1..Len(ac.l) : AsModel("GivenWhenThen", ac.l[i]).exc = ""
                /\ sp.t = "int" /\ sp.n \in {1, 2, 3, 5, 8, 13}
        THEN Return([t |-> "Story",
                     id |-> Get(kw, <<"i", "d">>),
                     featureId |-> Get(kw, <<"f", "e", "a", "t", "u", "r", "e", "I", "d">>),
                     title |-> Get(kw, <<"t", "i", "t", "l", "e">>),
                     description |-> desc.val,
                     acceptanceCriteria |->
                         [i \in 1..Len(ac.l) |-> AsModel("GivenWhenThen", ac.l[i]).val],
                     storyPoints |-> sp])
        ELSE Raise("ValidationError")

\* schema.py:22-27
TestCase(kw) ==
    LET steps == Get(kw, <<"s", "t", "e", "p", "s">>)
    IN  IF ~KeysAreStr(kw) THEN Raise("TypeError")
        ELSE IF /\ IsStr(Get(kw, <<"i", "d">>))
                /\ IsStr(Get(kw, <<"s", "t", "o", "r", "y", "I", "d">>))
                /\ IsStr(Get(kw, <<"p", "r", "e", "c", "o", "n", "d", "i", "t", "i", "o", "n", "s">>))
                /\ steps.t = "list"
                /\ \A i \in 1..Len(steps.l) : IsStr(steps.l[i])
                /\ IsStr(Get(kw, <<"e", "x", "p", "e", "c", "t", "e", "d">>))
        THEN Return([t |-> "TestCase",
                     id |-> Get(kw, <<"i", "d">>),
                     storyId |-> Get(kw, <<"s", "t", "o", "r", "y", "I", "d">>),
                     preconditions |-> Get(kw, <<"p", "r", "e", "c", "o", "n", "d", "i", "t", "i", "o", "n", "s">>),
                     steps |-> steps,
                     expected |-> Get(kw, <<"e", "x", "p", "e", "c", "t", "e", "d">>)])
        ELSE Raise("ValidationError")

\* schema.py:29-33
Feature(kw) ==
    LET id == IF HasKey(kw, <<"i", "d">>) THEN Get(kw, <<"i", "d">>) ELSE PyStr(<<>>)
        description == IF HasKey(kw, <<"d", "e", "s", "c", "r", "i", "p", "t", "i", "o", "n">>) THEN Get(kw, <<"d", "e", "s", "c", "r", "i", "p", "t", "i", "o", "n">>)
                       ELSE PyStr(<<>>)
    IN  IF ~KeysAreStr(kw) THEN Raise("TypeError")
        ELSE IF /\ IsStr(id)
                /\ IsOptStr(Get(kw, <<"k", "e", "y">>))
                /\ IsStr(Get(kw, <<"t", "i", "t", "l", "e">>))
                /\ IsOptStr(description)
        THEN Return([t |-> "Feature", id |-> id, key |-> Get(kw, <<"k", "e", "y">>),
                     title |-> Get(kw, <<"t", "i", "t", "l", "e">>), description |-> description])
        ELSE Raise("ValidationError")

\* BaseModel.model_dump()
model_dump(m) ==
    CASE m.t = "GivenWhenThen" ->
            PyDict(<< <<PyStr(<<"g", "i", "v", "e", "n">>), m.given>>, <<PyStr(<<"w", "h", "e", "n">>), m.when>>,
                      <<PyStr(<<"t", "h", "e", "n">>), m.then>> >>)
      [] m.t = "StoryDescription" ->
            PyDict(<< <<PyStr(<<"a", "s", "A">>), m.asA>>, <<PyStr(<<"i", "W", "a", "n", "t">>), m.iWant>>,
                      <<PyStr(<<"s", "o", "T", "h", "a", "t">>), m.soThat>> >>)
      [] m.t = "Story" ->
            PyDict(<< <<PyStr(<<"i", "d">>), m.id>>,
                      <<PyStr(<<"f", "e", "a", "t", "u", "r", "e", "I", "d">>), m.featureId>>,
                      <<PyStr(<<"t", "i", "t", "l", "e">>), m.title>>,
                      <<PyStr(<<"d", "e", "s", "c", "r", "i", "p", "t", "i", "o", "n">>),
                        PyDict(<< <<PyStr(<<"a", "s", "A">>), m.description.asA>>,
                                  <<PyStr(<<"i", "W", "a", "n", "t">>), m.description.iWant>>,
                                  <<PyStr(<<"s", "o", "T", "h", "a", "t">>), m.description.soThat>> >>)>>,
                      <<PyStr(<<"a", "c", "c", "e", "p", "t", "a", "n", "c", "e", "C", "r", "i", "t", "e", "r", "i", "a">>),
                        PyList([i \in 1..Len(m.acceptanceCriteria) |->
                            PyDict(<< <<PyStr(<<"g", "i", "v", "e", "n">>), m.acceptanceCriteria[i].given>>,
                                      <<PyStr(<<"w", "h", "e", "n">>), m.acceptanceCriteria[i].when>>,
                                      <<PyStr(<<"t", "h", "e", "n">>), m.acceptanceCriteria[i].then>> >>)])>>,
                      <<PyStr(<<"s", "t", "o", "r", "y", "P", "o", "i", "n", "t", "s">>), m.storyPoints>> >>)
      [] m.t = "TestCase" ->
            PyDict(<< <<PyStr(<<"i", "d">>), m.id>>,
                      <<PyStr(<<"s", "t", "o", "r", "y", "I", "d">>), m.storyId>>,
                      <<PyStr(<<"p", "r", "e", "c", "o", "n", "d", "i", "t", "i", "o", "n", "s">>), m.preconditions>>,
                      <<PyStr(<<"s", "t", "e", "p", "s">>), m.steps>>,
                      <<PyStr(<<"e", "x", "p", "e", "c", "t", "e", "d">>), m.expected>> >>)
      [] m.t = "Feature" ->
            PyDict(<< <<PyStr(<<"i", "d">>), m.id>>, <<PyStr(<<"k", "e", "y">>), m.key>>,
                      <<PyStr(<<"t", "i", "t", "l", "e">>), m.title>>,
                      <<PyStr(<<"d", "e", "s", "c", "r", "i", "p", "t", "i", "o", "n">>), m.description>> >>)

\* [m.model_dump() for m in models]
DumpAll(models) == [i \in 1..Len(models) |-> model_dump(models[i])]

\* getattr(obj, name, default) of a Feature or of None
getattr(obj, name, default) ==
    IF obj.t # "Feature" THEN default
    ELSE CASE name = "id" -> obj.id
           [] name = "key" -> obj.key
           [] name = "title" -> obj.title
           [] name = "description" -> obj.description

\* The first truthy value of a chain `a or b or ... or z` (z when none is).
RECURSIVE OrChain(_)
OrChain(vs) ==
    IF Len(vs) = 1 THEN vs[1]
    ELSE IF Truthy(vs[1]) THEN vs[1] ELSE OrChain(Tail(vs))

(***************************************************************************)
(* _normalize_gwt (app.py:204-215)                                         *)
(***************************************************************************)
_normalize_gwt(item0) ==
    LET item == IF item0.t = "dict" THEN item0 ELSE PyDict(<<>>)
        given == OrChain(<<Get(item, <<"g", "i", "v", "e", "n">>), Get(item, <<"G", "i", "v", "e", "n">>),
                           Get(item, <<"p", "r", "e", "c", "o", "n", "d", "i", "t", "i", "o", "n">>), Get(item, <<"c", "o", "n", "t", "e", "x", "t">>), PyStr(<<>>)>>)
        when == OrChain(<<Get(item, <<"w", "h", "e", "n">>), Get(item, <<"W", "h", "e", "n">>),
                          Get(item, <<"a", "c", "t", "i", "o", "n">>), Get(item, <<"e", "v", "e", "n", "t">>), PyStr(<<>>)>>)
        then == OrChain(<<Get(item, <<"t", "h", "e", "n">>), Get(item, <<"T", "h", "e", "n">>),
                          Get(item, <<"o", "u", "t", "c", "o", "m", "e">>), Get(item, <<"r", "e", "s", "u", "l", "t">>), PyStr(<<>>)>>)
    IN  PyDict(<< <<PyStr(<<"g", "i", "v", "e", "n">>), PyStr(strip(str(given)))>>,
                  <<PyStr(<<"w", "h", "e", "n">>), PyStr(strip(str(when)))>>,
                  <<PyStr(<<"t", "h", "e", "n">>), PyStr(strip(str(then)))>> >>)

(***************************************************************************)
(* _normalize_story (app.py:217-277).  x.strip() raises AttributeError     *)
(* when x is not a str.                                                    *)
(***************************************************************************)
\* app.py:230-236
StoryFeatureId(s, feature_fallback) ==
    OrChain(<<Get(s, <<"f", "e", "a", "t", "u", "r", "e", "I", "d">>),
              getattr(feature_fallback, "id", PyNone),
              getattr(feature_fallback, "key", PyNone),
              getattr(feature_fallback, "title", PyNone),
              PyStr(<<"F">>)>>)

\* app.py:239-242
StoryTitle(s, feature_fallback) ==
    LET given == Or(Get(s, <<"t", "i", "t", "l", "e">>), PyStr(<<>>))
        ft == Or(getattr(feature_fallback, "title", PyStr(<<>>)), PyStr(<<"f", "e", "a", "t", "u", "r", "e">>))
    IN  IF given.t # "str" THEN Raise("AttributeError")
        ELSE IF strip(given.s) # <<>> THEN Return(PyStr(strip(given.s)))
        ELSE Return(PyStr(strip(<<"I", "m", "p", "l", "e", "m", "e", "n", "t", " ">> \o ft.s)))

\* app.py:245-252
StoryDescriptionOf(s, feature_fallback) ==
    LET desc == Get(s, <<"d", "e", "s", "c", "r", "i", "p", "t", "i", "o", "n">>)
        title == getattr(feature_fallback, "title", PyStr(<<>>))
        asA == OrChain(<<Get(desc, <<"a", "s", "A">>), Get(desc, <<"r", "o", "l", "e">>), PyStr(<<"e", "n", "d", "-", "u", "s", "e", "r">>)>>)
        iWant == OrChain(<<Get(desc, <<"i", "W", "a", "n", "t">>), Get(desc, <<"g", "o", "a", "l">>), title,
                           PyStr(<<"u", "s", "e", " ", "t", "h", "e", " ", "f", "e", "a", "t", "u", "r", "e">>)>>)
        soThat == OrChain(<<Get(desc, <<"s", "o", "T", "h", "a", "t">>), Get(desc, <<"w", "h", "y">>),
                            PyStr(<<"I", " ", "g", "e", "t", " ", "v", "a", "l", "u", "e", " ", "q", "u", "i", "c", "k", "l", "y">>)>>)
    IN  IF desc.t = "dict"
        THEN IF asA.t # "str" \/ iWant.t # "str" \/ soThat.t # "str"
             THEN Raise("AttributeError")
             ELSE Return(PyDict(<< <<PyStr(<<"a", "s", "A">>), PyStr(strip(asA.s))>>,
                                   <<PyStr(<<"i", "W", "a", "n", "t">>), PyStr(strip(iWant.s))>>,
                                   <<PyStr(<<"s", "o", "T", "h", "a", "t">>), PyStr(strip(soThat.s))>> >>))
        ELSE Return(PyDict(<< <<PyStr(<<"a", "s", "A">>), PyStr(<<"e", "n", "d", "-", "u", "s", "e", "r">>)>>,
                              <<PyStr(<<"i", "W", "a", "n", "t">>), Or(title, PyStr(<<"u", "s", "e", " ", "t", "h", "e", " ", "f", "e", "a", "t", "u", "r", "e">>))>>,
                              <<PyStr(<<"s", "o", "T", "h", "a", "t">>), PyStr(<<"I", " ", "g", "e", "t", " ", "v", "a", "l", "u", "e", " ", "q", "u", "i", "c", "k", "l", "y">>)>> >>))

\* [x for x in xs if x is not None]
RECURSIVE DropNone(_)
DropNone(xs) ==
    IF xs = <<>> THEN <<>>
    ELSE IF Head(xs).t = "None" THEN DropNone(Tail(xs))
    ELSE <<Head(xs)>> \o DropNone(Tail(xs))

\* app.py:255-266
StoryAcceptanceCriteria(s, feature_fallback) ==
    LET ac0 == OrChain(<<Get(s, <<"a", "c", "c", "e", "p", "t", "a", "n", "c", "e", "C", "r", "i", "t", "e", "r", "i", "a">>), Get(s, <<"a", "c", "c", "e", "p", "t", "a", "n", "c", "e", "_", "c", "r", "i", "t", "e", "r", "i", "a">>),
                         Get(s, <<"A", "C">>), PyList(<<>>)>>)
        ac1 == IF ac0.t = "dict" THEN PyList(<<ac0>>) ELSE ac0
        ac == IF ac1.t # "list" THEN <<>> ELSE DropNone(ac1.l)
        ac_norm == [i \in 1..Len(ac) |-> _normalize_gwt(ac[i])]
        ft == Or(getattr(feature_fallback, "title", PyStr(<<>>)), PyStr(<<"t", "h", "e", " ", "f", "e", "a", "t", "u", "r", "e">>))
    IN  IF ac # <<>> THEN PyList(ac_norm)
        ELSE PyList(<<
            _normalize_gwt(PyDict(<< <<PyStr(<<"g", "i", "v", "e", "n">>), PyStr(<<"v", "a", "l", "i", "d", " ", "i", "n", "p", "u", "t">>)>>,
                <<PyStr(<<"w", "h", "e", "n">>), PyStr(<<"I", " ", "u", "s", "e", " ">> \o lower(ft.s))>>,
                <<PyStr(<<"t", "h", "e", "n">>), PyStr(<<"t", "h", "e", " ", "s", "y", "s", "t", "e", "m", " ", "c", "o", "m", "p", "l", "e", "t", "e", "s", " ", "s", "u", "c", "c", "e", "s", "s", "f", "u", "l", "l", "y">>)>> >>)),
            _normalize_gwt(PyDict(<< <<PyStr(<<"g", "i", "v", "e", "n">>), PyStr(<<"i", "n", "v", "a", "l", "i", "d", " ", "i", "n", "p", "u", "t">>)>>,
                <<PyStr(<<"w", "h", "e", "n">>), PyStr(<<"I", " ", "u", "s", "e", " ">> \o lower(ft.s))>>,
                <<PyStr(<<"t", "h", "e", "n">>), PyStr(<<"a", " ", "c", "l", "e", "a", "r", " ", "v", "a", "l", "i", "d", "a", "t", "i", "o", "n", " ", "m", "e", "s", "s", "a", "g", "e", " ", "i", "s", " ", "s", "h", "o", "w", "n">>)>> >>)) >>)

_normalize_story(s0, feature_fallback) ==
    LET copied == DictOrEmpty(s0)
        s == copied.val
        feature_id == StoryFeatureId(s, feature_fallback)
        title == StoryTitle(s, feature_fallback)
        description == StoryDescriptionOf(s, feature_fallback)
        ac_norm == StoryAcceptanceCriteria(s, feature_fallback)
        sp == _to_fib(Get(s, <<"s", "t", "o", "r", "y", "P", "o", "i", "n", "t", "s">>))
    IN  IF copied.exc # "" THEN copied
        ELSE IF title.exc # "" THEN title
        ELSE IF description.exc # "" THEN description
        ELSE Return(PyDict(<<
                <<PyStr(<<"f", "e", "a", "t", "u", "r", "e", "I", "d">>),
                  Or(PyStr(strip(str(feature_id))), PyStr(<<"F">>))>>,
                <<PyStr(<<"t", "i", "t", "l", "e">>), title.val>>,
                <<PyStr(<<"d", "e", "s", "c", "r", "i", "p", "t", "i", "o", "n">>), description.val>>,
                <<PyStr(<<"a", "c", "c", "e", "p", "t", "a", "n", "c", "e", "C", "r", "i", "t", "e", "r", "i", "a">>), ac_norm>>,
                <<PyStr(<<"s", "t", "o", "r", "y", "P", "o", "i", "n", "t", "s">>), PyInt(sp)>> >>))

(***************************************************************************)
(* SpecStory: _normalize_story applied to the mappings an LLM can return   *)
(* and a fallback Feature (or None), then applied to its own output.       *)
(***************************************************************************)
MaxCriteria == 2

\* Marks a key the mapping does not have.
Absent == [t |-> "absent", n |-> 0, s |-> <<>>, l |-> <<>>, d |-> <<>>]

IsPresent(pair) == pair[2] # Absent

\* The dict with the given <<name, value>> items, without the Absent ones.
MkDict(pairs) ==
    LET kept == SelectSeq(pairs, IsPresent)
    IN  PyDict([i \in 1..Len(kept) |-> <<PyStr(kept[i][1]), kept[i][2]>>])

TitleOptions == {Absent, PyStr(<<"P", "a", "y">>), PyStr(<<" ">>), PyInt(5)}

DescriptionOptions ==
    {Absent, PyStr(<<"x">>),
     MkDict(<< <<<<"a", "s", "A">>, PyStr(<<"d", "e", "v">>)>>, <<<<"i", "W", "a", "n", "t">>, PyStr(<<"p", "a", "y">>)>>,
               <<<<"s", "o", "T", "h", "a", "t">>, PyStr(<<"o", "k">>)>> >>),
     MkDict(<< <<<<"a", "s", "A">>, PyStr(<<" ">>)>>, <<<<"g", "o", "a", "l">>, PyStr(<<"p", "a", "y", " ">>)>> >>),
     MkDict(<< <<<<"r", "o", "l", "e">>, PyInt(5)>> >>)}

CriterionOptions ==
    {MkDict(<< <<<<"g", "i", "v", "e", "n">>, PyStr(<<"a">>)>>, <<<<"w", "h", "e", "n">>, PyStr(<<"b">>)>>,
               <<<<"t", "h", "e", "n">>, PyStr(<<"c">>)>> >>),
     PyStr(<<"x">>),
     PyNone}

AcceptanceCriteriaOptions ==
    {Absent, PyStr(<<"x">>),
     MkDict(<< <<<<"G", "i", "v", "e", "n">>, PyStr(<<" ", "a">>)>>, <<<<"a", "c", "t", "i", "o", "n">>, PyInt(5)>>,
               <<<<"r", "e", "s", "u", "l", "t">>, PyStr(<<"c">>)>> >>)}
    \cup {PyList(cs) : cs \in StringsUpTo(CriterionOptions, MaxCriteria)}

StoryPointsOptions == {Absent, PyInt(4), PyStr(<<"x">>)}

FeatureIdOptions == {Absent, PyStr(<<"F", "-", "1">>), PyStr(<<" ">>), PyInt(7)}

StoryMappings ==
    {MkDict(<< <<<<"f", "e", "a", "t", "u", "r", "e", "I", "d">>, f>>, <<<<"t", "i", "t", "l", "e">>, t>>, <<<<"d", "e", "s", "c", "r", "i", "p", "t", "i", "o", "n">>, d>>,
               <<<<"a", "c", "c", "e", "p", "t", "a", "n", "c", "e", "C", "r", "i", "t", "e", "r", "i", "a">>, a>>, <<<<"s", "t", "o", "r", "y", "P", "o", "i", "n", "t", "s">>, p>> >>) :
        f \in FeatureIdOptions, t \in TitleOptions, d \in DescriptionOptions,
        a \in AcceptanceCriteriaOptions, p \in StoryPointsOptions}

MkFeature(id, key, title, description) ==
    [t |-> "Feature", id |-> id, key |-> key, title |-> title,
     description |-> description]

FeatureLogin == MkFeature(PyStr(<<"1", "0">>), PyStr(<<"K", "-", "1">>), PyStr(<<"L", "o", "g", "i", "n">>), PyStr(<<>>))

FeaturePay == MkFeature(PyStr(<<>>), PyNone, PyStr(<<" ", "P", "a", "y", " ">>), PyStr(<<"x">>))

FeatureBlank == MkFeature(PyStr(<<>>), PyNone, PyStr(<<>>), PyNone)

FallbackFeatures == {FeatureLogin, FeaturePay, FeatureBlank, PyNone}

InitStory ==
    /\ AppInit
    /\ gemini_model = FALSE
    /\ args \in {[s |-> s, feature_fallback |-> f] :
                    s \in StoryMappings, f \in FallbackFeatures}
    /\ ret = NotCalled
    /\ ret2 = NotCalled

CallNormalizeStory ==
    /\ ~ret.called
    /\ LET r == _normalize_story(args.s, args.feature_fallback)
       IN  ret' = [called |-> TRUE, exc |-> r.exc, val |-> r.val]
    /\ UNCHANGED <<appVars, args, ret2>>

\* The output of the first call normalized again, with the same Feature.
RenormalizeStory ==
    /\ ret.called /\ ret.exc = ""
    /\ ~ret2.called
    /\ LET r == _normalize_story(ret.val, args.feature_fallback)
       IN  ret2' = [called |-> TRUE, exc |-> r.exc, val |-> r.val]
    /\ UNCHANGED <<appVars, args, ret>>

NextStory == CallNormalizeStory \/ RenormalizeStory

SpecStory == InitStory /\ [][NextStory]_vars

\* C6: for every JSON-like mapping and every fallback Feature (or none),
\* _normalize_story returns, without raising, a mapping that passes Story
\* schema validation.
C6_StoryNormalizerAlwaysValid ==
    ret.called => ret.exc = "" /\ Story(ret.val).exc = ""

\* What holds of _normalize_story instead: whenever it returns, the mapping
\* it returns passes Story schema validation.
C6_ReturnedStoryIsValid ==
    (ret.called /\ ret.exc = "") => Story(ret.val).exc = ""

\* The five fields _normalize_story produces, read from a mapping.
StoryFields(m) ==
    <<Get(m, <<"f", "e", "a", "t", "u", "r", "e", "I", "d">>), Get(m, <<"t", "i", "t", "l", "e">>), Get(m, <<"d", "e", "s", "c", "r", "i", "p", "t", "i", "o", "n">>),
      Get(m, <<"a", "c", "c", "e", "p", "t", "a", "n", "c", "e", "C", "r", "i", "t", "e", "r", "i", "a">>), Get(m, <<"s", "t", "o", "r", "y", "P", "o", "i", "n", "t", "s">>)>>

\* C7: _normalize_story is idempotent: an already-valid Story record comes
\* back unchanged, and normalizing the normalizer's own output a second time
\* changes no field.
C7_StoryNormalizerIdempotent ==
    /\ (ret.called /\ Story(args.s).exc = "")
           => ret.exc = "" /\ StoryFields(ret.val) = StoryFields(args.s)
    /\ ret2.called => ret2.exc = "" /\ ret2.val = ret.val

\* The second half of C7 alone: the normalizer's output is a fixed point.
C7_OutputIsFixedPoint ==
    ret2.called => ret2.exc = "" /\ ret2.val = ret.val

\* The first of the values that can be used, trimmed, or "F".  With
\* trimmed_first a value can be used when it is non-empty after trimming;
\* without it, when it is truthy, and a value that trims to nothing gives "F".
RECURSIVE FirstUsable(_, _)
FirstUsable(vs, trimmed_first) ==
    IF vs = <<>> THEN PyStr(<<"F">>)
    ELSE LET v == Head(vs)
             text == strip(str(v))
         IN  IF trimmed_first
             THEN IF v.t # "None" /\ text # <<>> THEN PyStr(text)
                  ELSE FirstUsable(Tail(vs), trimmed_first)
             ELSE IF Truthy(v)
                  THEN IF text # <<>> THEN PyStr(text) ELSE PyStr(<<"F">>)
                  ELSE FirstUsable(Tail(vs), trimmed_first)

StoryFeatureIdAsOwed(trimmed_first) ==
    (ret.called /\ ret.exc = "") =>
        Get(ret.val, <<"f", "e", "a", "t", "u", "r", "e", "I", "d">>) =
            FirstUsable(<<Get(args.s, <<"f", "e", "a", "t", "u", "r", "e", "I", "d">>),
                          getattr(args.feature_fallback, "id", PyNone),
                          getattr(args.feature_fallback, "key", PyNone),
                          getattr(args.feature_fallback, "title", PyNone)>>,
                        trimmed_first)

\* C12 as stated: _normalize_story sets featureId to the provided value when
\* it is present and non-empty after trimming, otherwise to the fallback
\* Feature's id, else its key, else its title, else "F", so that a missing,
\* empty or whitespace-only provided featureId yields the first non-empty of
\* the Feature's id, key and title.
C12_StoryFeatureId == StoryFeatureIdAsOwed(TRUE)

\* What does hold: the first truthy of the provided value and the Feature's
\* id, key and title is chosen before trimming, so a whitespace-only
\* provided featureId yields "F".
C12_FeatureIdChosenBeforeTrimming == StoryFeatureIdAsOwed(FALSE)

\* The entries of an acceptanceCriteria value that contribute a triple: of a
\* single mapping, itself; of a sequence, its mappings (only_mappings) or
\* all its entries but the nulls; of anything else, none.
ContributingEntries(ac, only_mappings) ==
    LET entries == IF ac.t = "dict" /\ Truthy(ac) THEN <<ac>>
                   ELSE IF ac.t = "list" THEN ac.l
                   ELSE <<>>
        Contributes(x) == IF only_mappings THEN x.t = "dict" ELSE x.t # "None"
    IN  SelectSeq(entries, Contributes)

\* One of the two default criteria, for the feature title ft; each text is
\* trimmed like every criterion
DefaultCriterion(given, ft, then) ==
    PyDict(<< <<PyStr(<<"g", "i", "v", "e", "n">>), PyStr(given)>>,
              <<PyStr(<<"w", "h", "e", "n">>), PyStr(strip(<<"I", " ", "u", "s", "e", " ">> \o lower(ft)))>>,
              <<PyStr(<<"t", "h", "e", "n">>), PyStr(then)>> >>)

AcceptanceCriteriaAsOwed(only_mappings) ==
    (ret.called /\ ret.exc = "") =>
        LET entries == ContributingEntries(Get(args.s, <<"a", "c", "c", "e", "p", "t", "a", "n", "c", "e", "C", "r", "i", "t", "e", "r", "i", "a">>), only_mappings)
            title == getattr(args.feature_fallback, "title", PyStr(<<>>))
            ft == IF title.s = <<>> THEN <<"t", "h", "e", " ", "f", "e", "a", "t", "u", "r", "e">> ELSE title.s
            out == Get(ret.val, <<"a", "c", "c", "e", "p", "t", "a", "n", "c", "e", "C", "r", "i", "t", "e", "r", "i", "a">>)
        IN  /\ out.t = "list"
            /\ out.l # <<>>
            /\ entries # <<>> =>
                   out.l = [i \in 1..Len(entries) |-> _normalize_gwt(entries[i])]
            /\ entries = <<>> =>
                   out.l = <<DefaultCriterion(<<"v", "a", "l", "i", "d", " ", "i", "n", "p", "u", "t">>, ft,
                                              <<"t", "h", "e", " ", "s", "y", "s", "t", "e", "m", " ", "c", "o", "m", "p", "l", "e", "t", "e", "s", " ", "s", "u", "c", "c", "e", "s", "s", "f", "u", "l", "l", "y">>),
                             DefaultCriterion(<<"i", "n", "v", "a", "l", "i", "d", " ", "i", "n", "p", "u", "t">>, ft,
                                              <<"a", " ", "c", "l", "e", "a", "r", " ", "v", "a", "l", "i", "d", "a", "t", "i", "o", "n", " ", "m", "e", "s", "s", "a", "g", "e", " ", "i", "s", " ", "s", "h", "o", "w", "n">>)>>

\* C13 as stated: acceptanceCriteria given as a single mapping or a sequence
\* contributes one normalized given/when/then triple per mapping entry, in
\* order, and every non-mapping entry (string, number, list, null) is
\* dropped; when no entry remains the output is exactly the two default
\* criteria ("valid input", "invalid input") that reference the lowercased
\* feature title; so the output is never empty and never longer than the
\* number of mapping entries unless it is the default pair.
C13_AcceptanceCriteria == AcceptanceCriteriaAsOwed(TRUE)

\* What does hold: only null entries are dropped; every other entry of a
\* sequence, mapping or not, contributes a triple (three empty strings for
\* a non-mapping), and the default pair is used when no entry remains.
C13_OnlyNullEntriesDropped == AcceptanceCriteriaAsOwed(FALSE)

(***************************************************************************)
(* _normalize_testcase (app.py:331-369, the definition in force: it        *)
(* replaces the one at app.py:160-187).                                    *)
(***************************************************************************)
\* [str(x).strip() for x in xs if x is not None and str(x).strip()]
RECURSIVE StrippedNonEmpty(_)
StrippedNonEmpty(xs) ==
    IF xs = <<>> THEN <<>>
    ELSE IF Head(xs).t # "None" /\ strip(str(Head(xs))) # <<>>
    THEN <<PyStr(strip(str(Head(xs))))>> \o StrippedNonEmpty(Tail(xs))
    ELSE StrippedNonEmpty(Tail(xs))

\* app.py:342-348
TestSteps(t) ==
    LET steps == Get(t, <<"s", "t", "e", "p", "s">>)
        listed == IF steps.t = "str" THEN <<steps>>
                  ELSE IF steps.t # "list" THEN <<>>
                  ELSE steps.l
    IN  PyList(StrippedNonEmpty(listed))

\* app.py:351-356
TestExpected(t) ==
    LET exp == Get(t, <<"e", "x", "p", "e", "c", "t", "e", "d">>)
        joined == IF exp.t = "list"
                  THEN PyStr(join(<<" ">>, [i \in 1..Len(StrippedNonEmpty(exp.l)) |->
                                               StrippedNonEmpty(exp.l)[i].s]))
                  ELSE IF exp.t = "None" THEN PyStr(<<>>)
                  ELSE exp
    IN  PyStr(strip(str(joined)))

\* app.py:359-360
TestPreconditions(t) ==
    LET prec == Get(t, <<"p", "r", "e", "c", "o", "n", "d", "i", "t", "i", "o", "n", "s">>)
    IN  PyStr(strip(IF prec.t = "None" THEN <<>> ELSE str(prec)))

\* app.py:363-364
TestStoryId(t, story_id_fallback) ==
    LET sid == OrChain(<<Get(t, <<"s", "t", "o", "r", "y", "I", "d">>), story_id_fallback, PyStr(<<"S">>)>>)
    IN  Or(PyStr(strip(str(sid))), PyStr(<<"S">>))

\* The first definition of _normalize_testcase (app.py:160-187), which the
\* second one shadows: no trimming, no dropping of empty items.
_normalize_testcase_v1(t0, story_id_fallback) ==
    LET copied == DictOrEmpty(t0)
        t == copied.val
        steps == Get(t, <<"s", "t", "e", "p", "s">>)
        listed == IF steps.t = "str" THEN <<steps>>
                  ELSE IF steps.t # "list" THEN <<>>
                  ELSE steps.l
        exp == Get(t, <<"e", "x", "p", "e", "c", "t", "e", "d">>)
        joined == IF exp.t = "list"
                  THEN PyStr(join(<<" ">>, [i \in 1..Len(exp.l) |-> str(exp.l[i])]))
                  ELSE IF exp.t = "None" THEN PyStr(<<>>)
                  ELSE exp
        t1 == SetItem(t, PyStr(<<"s", "t", "e", "p", "s">>),
                      PyList([i \in 1..Len(listed) |-> PyStr(str(listed[i]))]))
        t2 == SetItem(t1, PyStr(<<"e", "x", "p", "e", "c", "t", "e", "d">>), PyStr(str(joined)))
        t3 == SetItem(t2, PyStr(<<"p", "r", "e", "c", "o", "n", "d", "i", "t", "i", "o", "n", "s">>),
                      PyStr(str(Or(Get(t, <<"p", "r", "e", "c", "o", "n", "d", "i", "t", "i", "o", "n", "s">>), PyStr(<<>>)))))
        storyId == PyStr(str(Or(Get(t, <<"s", "t", "o", "r", "y", "I", "d">>), story_id_fallback)))
        t4 == SetItem(t3, PyStr(<<"s", "t", "o", "r", "y", "I", "d">>), storyId)
        count == IF Len(listed) = 0 THEN 1 ELSE Len(listed)
        t5 == SetItem(t4, PyStr(<<"i", "d">>),
                      PyStr(str(Or(Get(t, <<"i", "d">>),
                          PyStr(<<"T", "C", "-">> \o storyId.s \o <<"-">> \o IntToStr(count))))))
    IN  IF copied.exc # "" THEN copied ELSE Return(t5)

_normalize_testcase(t0, story_id_fallback) ==
    LET copied == DictOrEmpty(t0)
        t == copied.val
        steps == TestSteps(t)
        t1 == SetItem(t, PyStr(<<"s", "t", "e", "p", "s">>), steps)
        t2 == SetItem(t1, PyStr(<<"e", "x", "p", "e", "c", "t", "e", "d">>), TestExpected(t))
        t3 == SetItem(t2, PyStr(<<"p", "r", "e", "c", "o", "n", "d", "i", "t", "i", "o", "n", "s">>), TestPreconditions(t))
        storyId == TestStoryId(t, story_id_fallback)
        t4 == SetItem(t3, PyStr(<<"s", "t", "o", "r", "y", "I", "d">>), storyId)
        tid == Get(t, <<"i", "d">>)
        count == IF Len(steps.l) < 1 THEN 1 ELSE Len(steps.l)
        t5 == IF tid.t # "str" \/ strip(tid.s) = <<>>
              THEN SetItem(t4, PyStr(<<"i", "d">>),
                           PyStr(<<"T", "C", "-">> \o storyId.s \o <<"-">> \o IntToStr(count)))
              ELSE t4
    IN  IF copied.exc # "" THEN copied ELSE Return(t5)

(***************************************************************************)
(* SpecTest: _normalize_testcase applied to the mappings an LLM can        *)
(* return and a fallback story id.                                         *)
(***************************************************************************)
MaxSteps == 2

StepOptions == {PyStr(<<" ", "a", " ">>), PyStr(<<" ">>), PyNone}

StepsOptions ==
    {Absent, PyNone, PyStr(<<"c", "l", "i", "c", "k", " ", "b", "u", "t", "t", "o", "n">>)}
    \cup {PyList(xs) : xs \in StringsUpTo(StepOptions, MaxSteps)}

ExpectedOptions ==
    {PyNone, PyStr(<<" ", "o", "k", " ">>),
     PyList(<<PyStr(<<"o", "k">>), PyStr(<<"d", "o", "n", "e">>)>>),
     PyList(<<PyStr(<<" ", "a">>), PyNone, PyStr(<<" ">>), PyStr(<<"b", " ">>)>>),
     PyList(<<PyInt(5), PyStr(<<"b">>)>>),
     PyList(<<>>)}

PreconditionsOptions == {PyNone, PyStr(<<" ", "p", " ">>), PyList(<<PyStr(<<"p">>)>>)}

StoryIdOptions == {Absent, PyStr(<<"S", "-", "9", " ">>), PyStr(<<" ">>)}

TestIdOptions == {Absent, PyStr(<<"T", "1">>), PyStr(<<" ">>), PyInt(7)}

TestMappings ==
    {MkDict(<< <<<<"i", "d">>, i>>, <<<<"s", "t", "o", "r", "y", "I", "d">>, sid>>, <<<<"p", "r", "e", "c", "o", "n", "d", "i", "t", "i", "o", "n", "s">>, p>>,
               <<<<"s", "t", "e", "p", "s">>, st>>, <<<<"e", "x", "p", "e", "c", "t", "e", "d">>, e>> >>) :
        i \in TestIdOptions, sid \in StoryIdOptions, p \in PreconditionsOptions,
        st \in StepsOptions, e \in ExpectedOptions}

StoryIdFallbacks == {PyStr(<<"S", "-", "1">>), PyNone}

InitTest ==
    /\ AppInit
    /\ gemini_model = FALSE
    /\ args \in {[t |-> t, story_id_fallback |-> f] :
                    t \in TestMappings, f \in StoryIdFallbacks}
    /\ ret = NotCalled
    /\ ret2 = NotCalled

CallNormalizeTestcase ==
    /\ ~ret.called
    /\ LET r == _normalize_testcase(args.t, args.story_id_fallback)
       IN  ret' = [called |-> TRUE, exc |-> r.exc, val |-> r.val]
    /\ UNCHANGED <<appVars, args, ret2>>

NextTest == CallNormalizeTestcase

SpecTest == InitTest /\ [][NextTest]_vars

\* The non-null items of a list, each as its trimmed text, without the empty ones.
RECURSIVE TrimmedTexts(_)
TrimmedTexts(xs) ==
    IF xs = <<>> THEN <<>>
    ELSE LET text == strip(str(Head(xs)))
         IN  IF Head(xs).t = "None" \/ text = <<>> THEN TrimmedTexts(Tail(xs))
             ELSE <<text>> \o TrimmedTexts(Tail(xs))

IsTrimmedNonEmptyStr(v) == v.t = "str" /\ v.s # <<>> /\ strip(v.s) = v.s

\* C8: whether steps, expected and preconditions are each null, a single
\* string or a list, _normalize_testcase yields steps as a list, in the
\* original order, of non-empty trimmed strings; expected as one string (a
\* list joined with one space after trimming and dropping empty elements);
\* preconditions as a string (empty for null); and steps "click button",
\* expected ["ok","done"], preconditions null give ["click button"], "ok done", "".
C8_TestCaseNormalizerShapes ==
    ret.called =>
        LET steps_in == Get(args.t, <<"s", "t", "e", "p", "s">>)
            exp_in == Get(args.t, <<"e", "x", "p", "e", "c", "t", "e", "d">>)
            prec_in == Get(args.t, <<"p", "r", "e", "c", "o", "n", "d", "i", "t", "i", "o", "n", "s">>)
            steps == Get(ret.val, <<"s", "t", "e", "p", "s">>)
            expected == Get(ret.val, <<"e", "x", "p", "e", "c", "t", "e", "d">>)
            preconditions == Get(ret.val, <<"p", "r", "e", "c", "o", "n", "d", "i", "t", "i", "o", "n", "s">>)
        IN  /\ ret.exc = ""
            /\ steps.t = "list"
            /\ \A i \in 1..Len(steps.l) : IsTrimmedNonEmptyStr(steps.l[i])
            /\ steps_in.t = "list" =>
                   [i \in 1..Len(steps.l) |-> steps.l[i].s] = TrimmedTexts(steps_in.l)
            /\ steps_in.t = "str" =>
                   [i \in 1..Len(steps.l) |-> steps.l[i].s] = TrimmedTexts(<<steps_in>>)
            /\ steps_in.t = "None" => steps.l = <<>>
            /\ expected.t = "str"
            /\ exp_in.t = "list" => expected.s = join(<<" ">>, TrimmedTexts(exp_in.l))
            /\ exp_in.t = "str" => expected.s = strip(exp_in.s)
            /\ exp_in.t = "None" => expected.s = <<>>
            /\ preconditions.t = "str"
            /\ prec_in.t = "None" => preconditions.s = <<>>
            /\ prec_in.t = "str" => preconditions.s = strip(prec_in.s)
            /\ (/\ steps_in = PyStr(<<"c", "l", "i", "c", "k", " ", "b", "u", "t", "t", "o", "n">>)
                /\ exp_in = PyList(<<PyStr(<<"o", "k">>), PyStr(<<"d", "o", "n", "e">>)>>)
                /\ prec_in = PyNone)
               => /\ steps = PyList(<<PyStr(<<"c", "l", "i", "c", "k", " ", "b", "u", "t", "t", "o", "n">>)>>)
                  /\ expected = PyStr(<<"o", "k", " ", "d", "o", "n", "e">>)
                  /\ preconditions = PyStr(<<>>)

\* The scenario of C8 has run, and a list of steps has lost an item.
C8_Witness ==
    /\ ret.called
    /\ Get(args.t, <<"s", "t", "e", "p", "s">>) = PyStr(<<"c", "l", "i", "c", "k", " ", "b", "u", "t", "t", "o", "n">>)
    /\ Get(args.t, <<"e", "x", "p", "e", "c", "t", "e", "d">>) = PyList(<<PyStr(<<"o", "k">>), PyStr(<<"d", "o", "n", "e">>)>>)
    /\ Get(args.t, <<"p", "r", "e", "c", "o", "n", "d", "i", "t", "i", "o", "n", "s">>) = PyNone
    /\ Get(ret.val, <<"e", "x", "p", "e", "c", "t", "e", "d">>) = PyStr(<<"o", "k", " ", "d", "o", "n", "e">>)

\* The identifiers _normalize_testcase owes: storyId is the provided value
\* trimmed when that is non-empty, else the fallback (when trimmed_first),
\* else "S"; with trimmed_first false the first truthy of the provided value
\* and the fallback is chosen before trimming, and a blank result is "S".
OwedStoryId(t, story_id_fallback, trimmed_first) ==
    LET provided == Get(t, <<"s", "t", "o", "r", "y", "I", "d">>)
        usable(v) == IF trimmed_first THEN v.t = "str" /\ strip(v.s) # <<>>
                     ELSE Truthy(v)
        chosen == IF usable(provided) THEN provided
                  ELSE IF usable(story_id_fallback) THEN story_id_fallback
                  ELSE PyStr(<<"S">>)
    IN  IF strip(str(chosen)) = <<>> THEN PyStr(<<"S">>) ELSE PyStr(strip(str(chosen)))

\* id is the provided value when it is a str that is non-empty after
\* trimming, else "TC-{storyId}-{max(1, number of normalized steps)}"
OwedTestId(t, out) ==
    LET provided == Get(t, <<"i", "d">>)
        steps == Len(Get(out, <<"s", "t", "e", "p", "s">>).l)
    IN  IF provided.t = "str" /\ strip(provided.s) # <<>> THEN provided
        ELSE PyStr(<<"T", "C", "-">> \o Get(out, <<"s", "t", "o", "r", "y", "I", "d">>).s \o <<"-">>
                   \o NatToStr(IF steps < 1 THEN 1 ELSE steps))

TestIdentifiersAsOwed(trimmed_first) ==
    ret.called =>
        /\ ret.exc = ""
        /\ Get(ret.val, <<"s", "t", "o", "r", "y", "I", "d">>) = OwedStoryId(args.t, args.story_id_fallback, trimmed_first)
        /\ Get(ret.val, <<"i", "d">>) = OwedTestId(args.t, ret.val)

\* C11 as stated: storyId is the provided value trimmed when that is
\* non-empty, otherwise the fallback story id, otherwise "S", so that a
\* whitespace-only provided storyId yields the fallback story id; id is the
\* provided value when it is a string non-empty after trimming, otherwise
\* "TC-{storyId}-{max(1, number of normalized steps)}" from the resolved storyId.
C11_TestCaseIdentifiers == TestIdentifiersAsOwed(TRUE)

\* What does hold: the provided storyId is chosen whenever it is truthy, and
\* only then trimmed, so a whitespace-only one yields "S"; the id is as stated.
C11_IdentifiersChosenBeforeTrimming == TestIdentifiersAsOwed(FALSE)

\* A whitespace-only storyId with a fallback at hand, and a synthesized id.
C11_Witness ==
    /\ ret.called
    /\ Get(args.t, <<"s", "t", "o", "r", "y", "I", "d">>) = PyStr(<<" ">>)
    /\ args.story_id_fallback = PyStr(<<"S", "-", "1">>)
    /\ Get(args.t, <<"i", "d">>) = PyInt(7)
    /\ Get(ret.val, <<"s", "t", "o", "r", "y", "I", "d">>) = PyStr(<<"S">>)
    /\ Get(ret.val, <<"i", "d">>) = PyStr(<<"T", "C", "-", "S", "-", "2">>)

(***************************************************************************)
(* utils.py: the baseline (non-AI) generators.                             *)
(***************************************************************************)
\* any(k in t for k in keywords)
AnyIn(keywords, t) == \E i \in 1..Len(keywords) : contains(t, keywords[i])

\* The estimate_points of the first version of utils.py (utils.py:9-15, kept
\* in the file as a string): other keywords, and "login" is not one.
estimate_points_v1(title) ==
    LET t == lower(title.s)
    IN  IF AnyIn(<<<<"e", "r", "r", "o", "r">>, <<"f", "a", "i", "l", "e", "d">>, <<"r", "e", "t", "r", "y">>, <<"e", "d", "g", "e">>, <<"v", "a", "l", "i", "d", "a", "t", "i", "o", "n">>, <<"t", "i", "m", "e", "o", "u", "t">>>>, t)
        THEN 3
        ELSE IF AnyIn(<<<<"p", "a", "y", "m", "e", "n", "t">>, <<"a", "u", "t", "h", "e", "n", "t", "i", "c", "a", "t", "i", "o", "n">>, <<"a", "u", "t", "h">>, <<"s", "y", "n", "c">>, <<"e", "m", "a", "i", "l">>,
                        <<"p", "d", "f">>, <<"e", "x", "p", "o", "r", "t">>, <<"w", "e", "b", "h", "o", "o", "k">>, <<"i", "n", "t", "e", "g", "r", "a", "t", "i", "o", "n">>>>, t)
        THEN 5
        ELSE 2

\* utils.py:66-73
estimate_points(title) ==
    LET t == lower(Or(title, PyStr(<<>>)).s)
    IN  IF AnyIn(<<<<"a", "u", "t", "h">>, <<"l", "o", "g", "i", "n">>, <<"s", "i", "g", "n", "u", "p">>, <<"r", "e", "g", "i", "s", "t", "e", "r">>, <<"p", "a", "y", "m", "e", "n", "t">>,
                   <<"c", "h", "e", "c", "k", "o", "u", "t">>, <<"p", "d", "f">>, <<"e", "x", "p", "o", "r", "t">>, <<"e", "m", "a", "i", "l">>>>, t)
        THEN 5
        ELSE IF AnyIn(<<<<"e", "r", "r", "o", "r">>, <<"r", "e", "t", "r", "y">>, <<"t", "i", "m", "e", "o", "u", "t">>, <<"e", "d", "g", "e">>, <<"v", "a", "l", "i", "d", "a", "t", "i", "o", "n">>>>, t)
        THEN 3
        ELSE 2

\* utils.py:78
FIB == <<1, 2, 3, 5, 8, 13>>

\* utils.py:80-85: the largest member <= n, 1 when there is none
fib_down(n) ==
    LET fits == {i \in 1..Len(FIB) : FIB[i] <= n}
    IN  IF fits = {} THEN 1
        ELSE FIB[CHOOSE i \in fits : \A j \in fits : j <= i]

\* utils.py:87-90
fib_next_lower(n) ==
    LET i == CHOOSE j \in 1..Len(FIB) : FIB[j] = fib_down(n)
    IN  FIB[IF i - 1 < 1 THEN 1 ELSE i - 1]

\* utils.py:75-76: _mk_ac of (given, when, then) triples
_mk_ac(items) ==
    [i \in 1..Len(items) |->
        GivenWhenThen(PyDict(<< <<PyStr(<<"g", "i", "v", "e", "n">>), PyStr(items[i][1])>>,
                                <<PyStr(<<"w", "h", "e", "n">>), PyStr(items[i][2])>>,
                                <<PyStr(<<"t", "h", "e", "n">>), PyStr(items[i][3])>> >>)).val]

\* utils.py:101
BaseTitle(f) ==
    IF Truthy(f.title) THEN PyStr(strip(f.title.s)) ELSE PyStr(<<"F", "e", "a", "t", "u", "r", "e">>)

\* `if f.description:`, the test of utils.py:124 without its strip().
HasDescriptionUntrimmed(f) == Truthy(f.description)

\* utils.py:124
HasDescription(f) == strip(Or(f.description, PyStr(<<>>)).s) # <<>>

\* utils.py:104-119: Story 1 (happy path), an instance or a ValidationError
HappyPathStory(f, sid) ==
    LET base_title == BaseTitle(f)
    IN  Story(PyDict(<<
            <<PyStr(<<"i", "d">>), PyStr(<<"S", "-">> \o Format03d(sid))>>,
            <<PyStr(<<"f", "e", "a", "t", "u", "r", "e", "I", "d">>), OrChain(<<f.id, f.key, base_title>>)>>,
            <<PyStr(<<"t", "i", "t", "l", "e">>), PyStr(base_title.s \o <<":", " ", "h", "a", "p", "p", "y", " ", "p", "a", "t", "h">>)>>,
            <<PyStr(<<"d", "e", "s", "c", "r", "i", "p", "t", "i", "o", "n">>),
              StoryDescription(PyDict(<<
                  <<PyStr(<<"a", "s", "A">>), PyStr(<<"e", "n", "d", " ", "u", "s", "e", "r">>)>>,
                  <<PyStr(<<"i", "W", "a", "n", "t">>),
                    PyStr(<<"t", "o", " ", "u", "s", "e", " ">> \o lower(base_title.s) \o <<" ", "s", "u", "c", "c", "e", "s", "s", "f", "u", "l", "l", "y">>)>>,
                  <<PyStr(<<"s", "o", "T", "h", "a", "t">>), PyStr(<<"I", " ", "c", "a", "n", " ", "a", "c", "h", "i", "e", "v", "e", " ", "m", "y", " ", "g", "o", "a", "l">>)>> >>)).val>>,
            <<PyStr(<<"a", "c", "c", "e", "p", "t", "a", "n", "c", "e", "C", "r", "i", "t", "e", "r", "i", "a">>),
              PyList(_mk_ac(<<
                  <<<<"v", "a", "l", "i", "d", " ", "i", "n", "p", "u", "t", "s">>, <<"I", " ", "p", "e", "r", "f", "o", "r", "m", " ", "t", "h", "e", " ", "m", "a", "i", "n", " ", "a", "c", "t", "i", "o", "n">>,
                    <<"t", "h", "e", " ", "s", "y", "s", "t", "e", "m", " ", "c", "o", "m", "p", "l", "e", "t", "e", "s", " ", "i", "t", " ", "s", "u", "c", "c", "e", "s", "s", "f", "u", "l", "l", "y">>>>,
                  <<<<"s", "y", "s", "t", "e", "m", " ", "i", "s", " ", "a", "v", "a", "i", "l", "a", "b", "l", "e">>, <<"I", " ", "r", "e", "t", "r", "y", " ", "o", "n", "c", "e">>,
                    <<"t", "h", "e", " ", "s", "y", "s", "t", "e", "m", " ", "r", "e", "s", "p", "o", "n", "d", "s", " ", "w", "i", "t", "h", "i", "n", " ", "2", " ", "s", "e", "c", "o", "n", "d", "s">>>> >>))>>,
            <<PyStr(<<"s", "t", "o", "r", "y", "P", "o", "i", "n", "t", "s">>), PyInt(fib_down(estimate_points(base_title)))>> >>))

\* utils.py:125-140: Story 2 (error handling)
ErrorHandlingStory(f, sid) ==
    LET base_title == BaseTitle(f)
        points1 == fib_down(estimate_points(base_title))
    IN  Story(PyDict(<<
            <<PyStr(<<"i", "d">>), PyStr(<<"S", "-">> \o Format03d(sid))>>,
            <<PyStr(<<"f", "e", "a", "t", "u", "r", "e", "I", "d">>), OrChain(<<f.id, f.key, base_title>>)>>,
            <<PyStr(<<"t", "i", "t", "l", "e">>), PyStr(base_title.s \o <<":", " ", "e", "r", "r", "o", "r", " ", "h", "a", "n", "d", "l", "i", "n", "g">>)>>,
            <<PyStr(<<"d", "e", "s", "c", "r", "i", "p", "t", "i", "o", "n">>),
              StoryDescription(PyDict(<<
                  <<PyStr(<<"a", "s", "A">>), PyStr(<<"e", "n", "d", " ", "u", "s", "e", "r">>)>>,
                  <<PyStr(<<"i", "W", "a", "n", "t">>),
                    PyStr(<<"t", "o", " ", "s", "e", "e", " ", "c", "l", "e", "a", "r", " ", "e", "r", "r", "o", "r", "s", " ", "w", "h", "i", "l", "e", " ", "u", "s", "i", "n", "g", " ">> \o lower(base_title.s))>>,
                  <<PyStr(<<"s", "o", "T", "h", "a", "t">>), PyStr(<<"I", " ", "c", "a", "n", " ", "r", "e", "c", "o", "v", "e", "r", " ", "a", "n", "d", " ", "p", "r", "o", "c", "e", "e", "d">>)>> >>)).val>>,
            <<PyStr(<<"a", "c", "c", "e", "p", "t", "a", "n", "c", "e", "C", "r", "i", "t", "e", "r", "i", "a">>),
              PyList(_mk_ac(<<
                  <<<<"i", "n", "v", "a", "l", "i", "d", " ", "i", "n", "p", "u", "t", "s">>, <<"I", " ", "s", "u", "b", "m", "i", "t", " ", "t", "h", "e", " ", "f", "o", "r", "m">>,
                    <<"I", " ", "s", "e", "e", " ", "h", "e", "l", "p", "f", "u", "l", " ", "v", "a", "l", "i", "d", "a", "t", "i", "o", "n", " ", "m", "e", "s", "s", "a", "g", "e", "s">>>>,
                  <<<<"a", " ", "s", "e", "r", "v", "e", "r", " ", "e", "r", "r", "o", "r", " ", "o", "c", "c", "u", "r", "s">>, <<"I", " ", "t", "r", "y", " ", "a", "g", "a", "i", "n">>,
                    <<"I", " ", "s", "e", "e", " ", "a", " ", "n", "o", "n", "-", "d", "e", "s", "t", "r", "u", "c", "t", "i", "v", "e", " ", "e", "r", "r", "o", "r", " ", "a", "n", "d", " ", "c", "a", "n", " ", "r", "e", "t", "r", "y">>>> >>))>>,
            <<PyStr(<<"s", "t", "o", "r", "y", "P", "o", "i", "n", "t", "s">>), PyInt(fib_next_lower(points1))>> >>))

\* The constructor results of the loop of utils.py:100-142, from story number sid.
RECURSIVE BaselineStoriesFrom(_, _)
BaselineStoriesFrom(features, sid) ==
    IF features = <<>> THEN <<>>
    ELSE LET f == Head(features)
         IN  IF HasDescription(f)
             THEN <<HappyPathStory(f, sid), ErrorHandlingStory(f, sid + 1)>>
                      \o BaselineStoriesFrom(Tail(features), sid + 2)
             ELSE <<HappyPathStory(f, sid)>>
                      \o BaselineStoriesFrom(Tail(features), sid + 1)

\* The list of instances, or the first exception a constructor raised.
Collect(results) ==
    LET failed == {i \in 1..Len(results) : results[i].exc # ""}
    IN  IF failed = {} THEN Return([i \in 1..Len(results) |-> results[i].val])
        ELSE Raise(results[CHOOSE i \in failed : \A j \in failed : i <= j].exc)

\* utils.py:93-143
features_to_baseline_stories(features) == Collect(BaselineStoriesFrom(features, 1))

\* utils.py:151-172: one TestCase for the story s, numbered tid
BaselineTest(s, tid) ==
    LET st == lower(Or(s.title, PyStr(<<>>)).s)
        expected == IF AnyIn(<<<<"e", "r", "r", "o", "r">>, <<"v", "a", "l", "i", "d", "a", "t", "i", "o", "n">>, <<"r", "e", "t", "r", "y">>, <<"f", "a", "i", "l">>>>, st)
                    THEN <<"C", "l", "e", "a", "r", " ", "e", "r", "r", "o", "r", " ", "s", "h", "o", "w", "n", " ", "w", "i", "t", "h", " ", "g", "u", "i", "d", "a", "n", "c", "e", ";", " ", "u", "s", "e", "r", " ", "c", "a", "n", " ", "r", "e", "t", "r", "y", " ", "o", "r", " ", "r", "e", "c", "o", "v", "e", "r">>
                    ELSE <<"S", "y", "s", "t", "e", "m", " ", "c", "o", "m", "p", "l", "e", "t", "e", "s", " ", "t", "h", "e", " ", "a", "c", "t", "i", "o", "n", " ", "s", "u", "c", "c", "e", "s", "s", "f", "u", "l", "l", "y", " ", "w", "i", "t", "h", "o", "u", "t", " ", "e", "r", "r", "o", "r", "s">>
    IN  TestCase(PyDict(<<
            <<PyStr(<<"i", "d">>), PyStr(<<"T", "-">> \o Format03d(tid))>>,
            <<PyStr(<<"s", "t", "o", "r", "y", "I", "d">>), Or(s.id, PyStr(<<>>))>>,
            <<PyStr(<<"p", "r", "e", "c", "o", "n", "d", "i", "t", "i", "o", "n", "s">>), PyStr(<<"U", "s", "e", "r", " ", "h", "a", "s", " ", "a", "c", "c", "e", "s", "s", " ", "a", "n", "d", " ", "s", "y", "s", "t", "e", "m", " ", "i", "s", " ", "a", "v", "a", "i", "l", "a", "b", "l", "e">>)>>,
            <<PyStr(<<"s", "t", "e", "p", "s">>), PyList(<<
                PyStr(<<"N", "a", "v", "i", "g", "a", "t", "e", " ", "t", "o", " ", "t", "h", "e", " ", "a", "r", "e", "a", " ", "f", "o", "r", " ", "'">> \o s.title.s \o <<"'">>),
                PyStr(<<"P", "r", "o", "v", "i", "d", "e", " ", "v", "a", "l", "i", "d", " ", "i", "n", "p", "u", "t", "s", " ", "(", "o", "r", " ", "r", "e", "p", "r", "o", "d", "u", "c", "e", " ", "d", "e", "s", "c", "r", "i", "b", "e", "d", " ", "s", "c", "e", "n", "a", "r", "i", "o", ")">>),
                PyStr(<<"T", "r", "i", "g", "g", "e", "r", " ", "t", "h", "e", " ", "m", "a", "i", "n", " ", "a", "c", "t", "i", "o", "n">>),
                PyStr(<<"O", "b", "s", "e", "r", "v", "e", " ", "s", "y", "s", "t", "e", "m", " ", "r", "e", "s", "p", "o", "n", "s", "e">>)>>)>>,
            <<PyStr(<<"e", "x", "p", "e", "c", "t", "e", "d">>), PyStr(expected)>> >>))

\* utils.py:145-173
stories_to_baseline_tests(stories) ==
    Collect([i \in 1..Len(stories) |-> BaselineTest(stories[i], i)])

(***************************************************************************)
(* SpecBaseline: features_to_baseline_stories applied to lists of Features.*)
(***************************************************************************)
MaxFeatures == 3

FeatureRetry == MkFeature(PyStr(<<>>), PyStr(<<"K", "-", "2">>), PyStr(<<"R", "e", "t", "r", "y">>), PyStr(<<" ">>))

FeatureLoginPlain == MkFeature(PyStr(<<>>), PyNone, PyStr(<<"L", "o", "g", "i", "n">>), PyStr(<<>>))

BaselineFeatures == {FeatureLoginPlain, FeaturePay, FeatureBlank, FeatureRetry}

InitBaseline ==
    /\ AppInit
    /\ gemini_model = FALSE
    /\ args \in {[features |-> fs] : fs \in StringsUpTo(BaselineFeatures, MaxFeatures)}
    /\ ret = NotCalled
    /\ ret2 = NotCalled

CallBaselineStories ==
    /\ ~ret.called
    /\ LET r == features_to_baseline_stories(args.features)
       IN  ret' = [called |-> TRUE, exc |-> r.exc, val |-> r.val]
    /\ UNCHANGED <<appVars, args, ret2>>

NextBaseline == CallBaselineStories

SpecBaseline == InitBaseline /\ [][NextBaseline]_vars

\* The description is None or the empty string.
EmptyDescription(f) == f.description.t = "None" \/ f.description.s = <<>>

\* The description is None, empty, or whitespace only.
BlankDescription(f) == f.description.t = "None" \/ strip(f.description.s) = <<>>

\* Whether C9 counts the description of f as empty: with trimmed, whitespace
\* alone is empty too.
CountsAsEmpty(f, trimmed) ==
    IF trimmed THEN BlankDescription(f) ELSE EmptyDescription(f)

\* How many stories C9 gives a list of Features.
RECURSIVE StoryCount(_, _)
StoryCount(features, trimmed) ==
    IF features = <<>> THEN 0
    ELSE (IF CountsAsEmpty(Head(features), trimmed) THEN 1 ELSE 2)
             + StoryCount(Tail(features), trimmed)

\* k as three decimal digits, 1 <= k <= 999
ThreeDigits(k) ==
    <<Digits[(k \div 100) + 1], Digits[((k \div 10) % 10) + 1], Digits[(k % 10) + 1]>>

\* The stories of C9: per Feature, in feature order, one story when its
\* description counts as empty and two otherwise, the k-th of the whole output with id
\* "S-" and k as a 3-digit number, so that no two share an id.
BaselineStoriesAsClaimed(trimmed) ==
    ret.called =>
        LET features == args.features
            stories == ret.val
            first(i) == StoryCount(SubSeq(features, 1, i - 1), trimmed) + 1
        IN  /\ ret.exc = ""
            /\ Len(stories) = StoryCount(features, trimmed)
            /\ \A i \in 1..Len(features) :
                   /\ first(i) <= Len(stories)
                   /\ stories[first(i)].title.s
                          = BaseTitle(features[i]).s \o <<":", " ", "h", "a", "p", "p", "y", " ", "p", "a", "t", "h">>
                   /\ ~CountsAsEmpty(features[i], trimmed) =>
                          /\ first(i) + 1 <= Len(stories)
                          /\ stories[first(i) + 1].title.s
                                 = BaseTitle(features[i]).s \o <<":", " ", "e", "r", "r", "o", "r", " ", "h", "a", "n", "d", "l", "i", "n", "g">>
            /\ \A k \in 1..Len(stories) :
                   stories[k].id = PyStr(<<"S", "-">> \o ThreeDigits(k))
            /\ \A j, k \in 1..Len(stories) : j # k => stories[j].id # stories[k].id

\* C9 as stated: for every list of Features the baseline story generator
\* produces exactly 1 story for each Feature with an empty description and
\* exactly 2 for each Feature with a non-empty description, in feature
\* order, the k-th story of the output with id "S-" and k as a 3-digit
\* number, ids sequential across features and never shared.
C9_BaselineStoryCountsAsStated == BaselineStoriesAsClaimed(FALSE)

\* C9 as amended: a description of whitespace only counts as empty (1 story);
\* 2 stories for a description that is non-empty after trimming.
C9_BaselineStoryCounts == BaselineStoriesAsClaimed(TRUE)

\* A call that produced both counts: a Feature with one story (a description
\* of whitespace only) and a Feature with two, five stories in all.
C9_Witness ==
    /\ ret.called
    /\ Len(args.features) = 3
    /\ \E i \in 1..3 : args.features[i].description = PyStr(<<" ">>)
    /\ \E i \in 1..3 : HasDescription(args.features[i])
    /\ Len(ret.val) = 5
    /\ ret.val[5].id = PyStr(<<"S", "-", "0", "0", "5">>)

\* The scenario of C10: the only input Feature is titled "Login" and has an
\* empty description.
LoginScenario ==
    /\ ret.called
    /\ Len(args.features) = 1
    /\ args.features[1].title = PyStr(<<"L", "o", "g", "i", "n">>)
    /\ args.features[1].description = PyStr(<<>>)

LoginStoryWithPoints(points) ==
    /\ ret.exc = ""
    /\ Len(ret.val) = 1
    /\ ret.val[1].title = PyStr(<<"L", "o", "g", "i", "n", ":", " ", "h", "a", "p", "p", "y", " ", "p", "a", "t", "h">>)
    /\ Len(ret.val[1].acceptanceCriteria) = 2
    /\ ret.val[1].storyPoints = PyInt(points)

\* C10 as stated: for the Feature titled "Login" with an empty description
\* the baseline story generator yields exactly one Story, titled
\* "Login: happy path", with 2 acceptance criteria and storyPoints = 2.
C10_LoginScenarioAsStated == LoginScenario => LoginStoryWithPoints(2)

\* C10 as amended: the same, with storyPoints = 5 ("login" is a keyword of
\* the estimate 5, and the largest allowed value <= 5 is 5).
C10_LoginScenario == LoginScenario => LoginStoryWithPoints(5)

\* The scenario of C10 has run and produced its story.
C10_Witness == LoginScenario /\ Len(ret.val) = 1 /\ ret.val[1].storyPoints.n = 5

(***************************************************************************)
(* app.py: the request handlers.  generate_stories, generate_tests and     *)
(* export hold no await, and the ingest handlers touch STATE only after    *)
(* their last await, so each handler is one atomic step of the event loop  *)
(* and concurrent requests interleave as whole handlers.                   *)
(* An exception that leaves a handler is the framework's 500 response.     *)
(***************************************************************************)
\* d.get(name, default)
GetOr(v, name, default) == IF HasKey(v, name) THEN Get(v, name) ELSE default

\* app.py:309-317: one item of the LLM's array to a Story instance
StoryItem(s, idx, default_feature) ==
    LET normalized == _normalize_story(s, default_feature)
        with_id == SetItem(normalized.val, PyStr(<<"i", "d">>),
                           Or(Get(s, <<"i", "d">>), PyStr(<<"S", "-">> \o Format03d(idx))))
        ns == IF Truthy(Get(with_id, <<"f", "e", "a", "t", "u", "r", "e", "I", "d">>)) THEN with_id
              ELSE SetItem(with_id, PyStr(<<"f", "e", "a", "t", "u", "r", "e", "I", "d">>),
                           IF default_feature.t = "Feature"
                           THEN OrChain(<<default_feature.id, default_feature.key,
                                          default_feature.title, PyStr(<<"F">>)>>)
                           ELSE PyStr(<<"F">>))
    IN  IF normalized.exc # "" THEN normalized
        ELSE IF s.t # "dict" THEN Raise("AttributeError")
        ELSE Story(ns)

\* app.py:304-307, 401-404: a bare object is wrapped, a non-list becomes []
AsArray(raw) ==
    IF raw.t = "dict" THEN <<raw>>
    ELSE IF raw.t # "list" THEN <<>>
    ELSE raw.l

\* A loop that keeps the items that pass and skips the others, where
\* app.py:310-317 lets the first exception end the whole batch.
RECURSIVE KeepValid(_)
KeepValid(results) ==
    IF results = <<>> THEN <<>>
    ELSE IF Head(results).exc = "" THEN <<Head(results).val>> \o KeepValid(Tail(results))
    ELSE KeepValid(Tail(results))

AIStoriesKeepingValid(raw, features) ==
    LET default_feature == IF features # <<>> THEN features[1] ELSE PyNone
        items == AsArray(raw)
    IN  Return(KeepValid([i \in 1..Len(items) |-> StoryItem(items[i], i, default_feature)]))

\* app.py:303-317: the stories of the LLM's answer, or the first exception
AIStories(raw, features) ==
    LET default_feature == IF features # <<>> THEN features[1] ELSE PyNone
        items == AsArray(raw)
    IN  Collect([i \in 1..Len(items) |-> StoryItem(items[i], i, default_feature)])

\* app.py:400-410: the tests of the LLM's answer, or the first exception;
\* every item is normalized before the first is validated
AITests(raw, stories) ==
    LET story_id_default == IF stories # <<>> THEN stories[1].id ELSE PyStr(<<"S">>)
        items == AsArray(raw)
        normalized == Collect([i \in 1..Len(items) |->
                                  _normalize_testcase(items[i], story_id_default)])
    IN  IF normalized.exc # "" THEN normalized
        ELSE Collect([i \in 1..Len(items) |-> TestCase(normalized.val[i])])

\* A try block whose except clause records the error and builds the baseline
\* but leaves LAST_AI_ENGINE as the try block set it.
StoriesAttemptKeepingEngine(features, gemini, error_before) ==
    LET ai == IF gemini.exc # "" THEN gemini ELSE AIStories(gemini.val, features)
    IN  IF ai.exc = ""
        THEN [engine |-> "gemini", error |-> None, made |-> ai]
        ELSE [engine |-> IF gemini.exc # "" THEN "fallback" ELSE "gemini",
              error |-> ai.exc,
              made |-> features_to_baseline_stories(features)]

\* app.py:292-322: what the try/except of generate_stories leaves: the two
\* globals, the list `stories` (or the exception the baseline generator
\* raised).  gemini is what _gemini_json
\* did: it returned the parsed JSON or raised.
StoriesAttempt(features, gemini, error_before) ==
    LET ai == IF gemini.exc # "" THEN gemini ELSE AIStories(gemini.val, features)
    IN  IF ai.exc = ""
        THEN [engine |-> "gemini", error |-> None, made |-> ai]
        ELSE [engine |-> "fallback", error |-> ai.exc,
              made |-> features_to_baseline_stories(features)]

\* app.py:390-416: the same for generate_tests; its try block sets
\* LAST_AI_ENGINE only, so a success leaves LAST_AI_ERROR as it was
TestsAttempt(stories, gemini, error_before) ==
    LET ai == IF gemini.exc # "" THEN gemini ELSE AITests(gemini.val, stories)
    IN  IF ai.exc = ""
        THEN [engine |-> "gemini", error |-> error_before, made |-> ai]
        ELSE [engine |-> "fallback", error |-> ai.exc,
              made |-> stories_to_baseline_tests(stories)]

\* app.py:286-290: Gemini unavailable
StoriesWithoutGemini(features, error_before) ==
    [engine |-> "fallback", error |-> error_before,
     made |-> features_to_baseline_stories(features)]

\* app.py:383-387
TestsWithoutGemini(stories, error_before) ==
    [engine |-> "fallback", error |-> error_before,
     made |-> stories_to_baseline_tests(stories)]

\* A store that extends the list of the kind instead of replacing it.
StoreMerging(state, kind, models) ==
    [state EXCEPT ![kind] = state[kind] \o DumpAll(models)]

\* app.py:143, 154, 289, 324, 386, 419: STATE[kind] = [m.model_dump() for m in models]
Store(state, kind, models) == [state EXCEPT ![kind] = DumpAll(models)]

\* `for x in v`: the items of a list, the characters of a str, the keys of a
\* dict; anything else is not iterable.
IterItems(v) ==
    CASE v.t = "list" -> Return(v.l)
      [] v.t = "str" -> Return([i \in 1..Len(v.s) |-> PyStr(<<v.s[i]>>)])
      [] v.t = "dict" -> Return([i \in 1..Len(v.d) |-> v.d[i][1]])
      [] OTHER -> Raise("TypeError")

\* Sequences of results: the concatenation of the values, or the first exception.
RECURSIVE Flatten(_)
Flatten(results) ==
    IF results = <<>> THEN Return(<<>>)
    ELSE IF Head(results).exc # "" THEN Head(results)
    ELSE LET rest == Flatten(Tail(results))
         IN  IF rest.exc # "" THEN rest ELSE Return(Head(results).val \o rest.val)

\* app.py:104-106: the text parts of one node of a document
NodeTexts(node) ==
    LET subs == IterItems(GetOr(node, <<"c", "o", "n", "t", "e", "n", "t">>, PyList(<<>>)))
        IsText(sub) == sub.t = "dict" /\ Get(sub, <<"t", "y", "p", "e">>) = PyStr(<<"t", "e", "x", "t">>)
    IN  IF node.t # "dict" THEN Return(<<>>)
        ELSE IF subs.exc # "" THEN subs
        ELSE Return(SelectSeq([i \in 1..Len(subs.val) |->
                                  IF IsText(subs.val[i])
                                  THEN GetOr(subs.val[i], <<"t", "e", "x", "t">>, PyStr(<<>>))
                                  ELSE Absent],
                              LAMBDA x : x # Absent))

\* app.py:97-108
_plain_desc(desc) ==
    LET nodes == IterItems(GetOr(desc, <<"c", "o", "n", "t", "e", "n", "t">>, PyList(<<>>)))
        parts == Flatten([i \in 1..Len(nodes.val) |-> NodeTexts(nodes.val[i])])
    IN  IF desc.t = "str" THEN Return(desc)
        ELSE IF desc.t = "dict" /\ Get(desc, <<"t", "y", "p", "e">>) = PyStr(<<"d", "o", "c">>)
        THEN IF nodes.exc # "" THEN nodes
             ELSE IF parts.exc # "" THEN parts
             ELSE IF \E i \in 1..Len(parts.val) : parts.val[i].t # "str"
             THEN Raise("TypeError")
             ELSE Return(PyStr(join(<<" ">>, [i \in 1..Len(parts.val) |-> parts.val[i].s])))
        ELSE Return(PyStr(<<>>))

\* app.py:133-141: one issue: no Feature (not an epic), a Feature, or an exception
IssueFeature(issue) ==
    LET fields == GetOr(issue, <<"f", "i", "e", "l", "d", "s">>, PyDict(<<>>))
        issuetype == Or(GetOr(fields, <<"i", "s", "s", "u", "e", "t", "y", "p", "e">>, PyDict(<<>>)), PyDict(<<>>))
        name == GetOr(issuetype, <<"n", "a", "m", "e">>, PyStr(<<>>))
        summary == Or(Get(fields, <<"s", "u", "m", "m", "a", "r", "y">>), PyStr(<<>>))
        description == _plain_desc(Get(fields, <<"d", "e", "s", "c", "r", "i", "p", "t", "i", "o", "n">>))
        made == Feature(PyDict(<<
                    <<PyStr(<<"i", "d">>), GetOr(issue, <<"i", "d">>, PyStr(<<>>))>>,
                    <<PyStr(<<"k", "e", "y">>), Get(issue, <<"k", "e", "y">>)>>,
                    <<PyStr(<<"t", "i", "t", "l", "e">>), PyStr(strip(summary.s))>>,
                    <<PyStr(<<"d", "e", "s", "c", "r", "i", "p", "t", "i", "o", "n">>), description.val>> >>))
    IN  IF issue.t # "dict" \/ fields.t # "dict" \/ issuetype.t # "dict" \/ name.t # "str"
        THEN Raise("AttributeError")
        ELSE IF lower(name.s) # <<"e", "p", "i", "c">> THEN Return(<<>>)
        ELSE IF summary.t # "str" THEN Raise("AttributeError")
        ELSE IF description.exc # "" THEN description
        ELSE IF made.exc # "" THEN made
        ELSE Return(<<made.val>>)

\* app.py:131-141: the Features of the tracker's answer
JiraFeatures(data) ==
    LET issues == IterItems(GetOr(data, <<"i", "s", "s", "u", "e", "s">>, PyList(<<>>)))
    IN  IF data.t # "dict" THEN Raise("AttributeError")
        ELSE IF issues.exc # "" THEN issues
        ELSE Flatten([i \in 1..Len(issues.val) |-> IssueFeature(issues.val[i])])

\* app.py:152-153: the Features of the uploaded document
MockFeatures(data) ==
    LET listed == IterItems(GetOr(data, <<"f", "e", "a", "t", "u", "r", "e", "s">>, PyList(<<>>)))
    IN  IF data.t # "dict" THEN Raise("AttributeError")
        ELSE IF listed.exc # "" THEN listed
        ELSE Collect([i \in 1..Len(listed.val) |->
                         IF listed.val[i].t # "dict" THEN Raise("TypeError")
                         ELSE Feature(listed.val[i])])

\* app.py:431-436: the Markdown lines of the stories
ExportMarkdown(stories) ==
    <<<<"#", " ", "G", "e", "n", "e", "r", "a", "t", "e", "d", " ", "S", "t", "o", "r", "i", "e", "s", " ", "&", " ", "T", "e", "s", "t", "s">>>>
    \o Flatten([i \in 1..Len(stories) |->
           LET s == stories[i]
               d == GetOr(s, <<"d", "e", "s", "c", "r", "i", "p", "t", "i", "o", "n">>, PyDict(<<>>))
           IN  Return(<<<<"#", "#", " ">> \o str(Get(s, <<"i", "d">>)) \o <<" ", "-", " ">> \o str(Get(s, <<"t", "i", "t", "l", "e">>)),
                        <<"A", "s", " ", "a", " ">> \o str(Get(d, <<"a", "s", "A">>)) \o <<",", " ", "I", " ", "w", "a", "n", "t", " ">>
                            \o str(Get(d, <<"i", "W", "a", "n", "t">>)) \o <<" ", "s", "o", " ", "t", "h", "a", "t", " ">>
                            \o str(Get(d, <<"s", "o", "T", "h", "a", "t">>)) \o <<".">>>>)]).val

(***************************************************************************)
(* Spec: the service.  The clients send ingest, generate and export        *)
(* requests in any order; the LLM and the tracker answer as they please.   *)
(***************************************************************************)
MaxRaw == 2

Kinds == {"features", "stories", "tests"}

\* Items of an LLM answer to the stories prompt: one the normalizer and the
\* schema accept, one the normalizer rejects (title is not a str), one the
\* schema rejects (id is not a str).
StoryItemGood == MkDict(<< <<<<"t", "i", "t", "l", "e">>, PyStr(<<"P", "a", "y">>)>> >>)
StoryItemBadTitle == MkDict(<< <<<<"t", "i", "t", "l", "e">>, PyInt(5)>> >>)
StoryItemIntId == MkDict(<< <<<<"i", "d">>, PyInt(7)>>, <<<<"t", "i", "t", "l", "e">>, PyStr(<<"P", "a", "y">>)>> >>)

\* The items of the arrays, and the bare objects
StoryItems == {StoryItemGood, StoryItemBadTitle}
StoryObjects == {StoryItemGood, StoryItemIntId}

\* Items of an LLM answer to the tests prompt: a mapping, and a string,
\* which dict() rejects.
TestItemGood == MkDict(<< <<<<"s", "t", "e", "p", "s">>, PyList(<<PyStr(<<"g", "o">>)>>)>>,
                          <<<<"e", "x", "p", "e", "c", "t", "e", "d">>, PyStr(<<"o", "k">>)>> >>)
TestItemText == PyStr(<<"x">>)

TestItems == {TestItemGood, TestItemText}
TestObjects == {TestItemGood}

RECURSIVE ListsUpTo(_, _)
ListsUpTo(items, k) ==
    IF k = 0 THEN {<<>>}
    ELSE LET shorter == ListsUpTo(items, k - 1)
         IN  shorter \cup {Append(l, x) : l \in shorter, x \in items}

\* app.py:54-62: what _gemini_json does: the client raises, json.loads
\* raises, or the parsed JSON is returned: an array, a bare object, a scalar.
GeminiOutcomes(items, objects) ==
    {Raise("RuntimeError"), Raise("JSONDecodeError"), Return(PyInt(1))}
    \cup {Return(object) : object \in objects}
    \cup {Return(PyList(l)) : l \in ListsUpTo(items, MaxRaw)}

\* The request bodies, already validated by the framework (schema.py:35-39)
RequestFeatures == {<<>>, <<FeaturePay>>}
RequestStories == {<<>>, features_to_baseline_stories(<<FeatureLoginPlain>>).val}

\* The uploaded file of ingest_mock, as json.loads leaves it
MockUploads ==
    {Raise("JSONDecodeError"),
     Return(PyList(<<>>)),
     Return(MkDict(<< <<<<"f", "e", "a", "t", "u", "r", "e", "s">>, PyList(<<>>)>> >>)),
     Return(MkDict(<< <<<<"f", "e", "a", "t", "u", "r", "e", "s">>, PyList(<< MkDict(<< <<<<"k", "e", "y">>, PyStr(<<"K">>)>> >>) >>)>> >>)),
     Return(MkDict(<< <<<<"f", "e", "a", "t", "u", "r", "e", "s">>,
                        PyList(<< MkDict(<< <<<<"t", "i", "t", "l", "e">>, PyStr(<<"P", "a", "y">>)>> >>) >>)>> >>))}

\* An Atlassian document with one paragraph of two text nodes
DocDescription ==
    MkDict(<< <<<<"t", "y", "p", "e">>, PyStr(<<"d", "o", "c">>)>>,
              <<<<"c", "o", "n", "t", "e", "n", "t">>, PyList(<<
                  MkDict(<< <<<<"c", "o", "n", "t", "e", "n", "t">>, PyList(<<
                      MkDict(<< <<<<"t", "y", "p", "e">>, PyStr(<<"t", "e", "x", "t">>)>>, <<<<"t", "e", "x", "t">>, PyStr(<<"a">>)>> >>),
                      MkDict(<< <<<<"t", "y", "p", "e">>, PyStr(<<"t", "e", "x", "t">>)>>, <<<<"t", "e", "x", "t">>, PyStr(<<"b">>)>> >>)
                  >>)>> >>) >>)>> >>)

MkIssue(id, typename, summary, description) ==
    MkDict(<< <<<<"i", "d">>, id>>, <<<<"k", "e", "y">>, PyStr(<<"K", "-", "1">>)>>,
              <<<<"f", "i", "e", "l", "d", "s">>, MkDict(<< <<<<"i", "s", "s", "u", "e", "t", "y", "p", "e">>, MkDict(<< <<<<"n", "a", "m", "e">>, typename>> >>)>>,
                                     <<<<"s", "u", "m", "m", "a", "r", "y">>, summary>>,
                                     <<<<"d", "e", "s", "c", "r", "i", "p", "t", "i", "o", "n">>, description>> >>)>> >>)

\* The tracker's answers to ingest_jira: the request raises httpx.HTTPError,
\* r.json() raises, or the parsed JSON is returned.
JiraAnswers ==
    {Raise("HTTPError"),
     Raise("JSONDecodeError"),
     Return(MkDict(<<>>)),
     Return(MkDict(<< <<<<"i", "s", "s", "u", "e", "s">>, PyList(<<
         MkIssue(PyStr(<<"1">>), PyStr(<<"S", "t", "o", "r", "y">>), PyStr(<<"P", "a", "y">>), PyNone) >>)>> >>)),
     Return(MkDict(<< <<<<"i", "s", "s", "u", "e", "s">>, PyList(<<
         MkIssue(PyStr(<<"1">>), PyStr(<<"E", "p", "i", "c">>), PyStr(<<" ", "P", "a", "y">>), DocDescription),
         MkIssue(PyStr(<<"2">>), PyStr(<<"B", "u", "g">>), PyNone, PyNone) >>)>> >>)),
     Return(MkDict(<< <<<<"i", "s", "s", "u", "e", "s">>, PyList(<<
         MkIssue(PyInt(1), PyStr(<<"e", "p", "i", "c">>), PyNone, PyStr(<<"x">>)) >>)>> >>))}

ExportFormats == {"json", "md", "xml"}

\* ---- history, kept for the properties ----
\* The number of results before the first exception
RECURSIVE AcceptedBefore(_)
AcceptedBefore(results) ==
    IF results = <<>> \/ Head(results).exc # "" THEN 0
    ELSE 1 + AcceptedBefore(Tail(results))

\* The per-item results of an LLM answer to the stories prompt
StoryResults(features, gemini) ==
    LET items == IF gemini.exc # "" THEN <<>> ELSE AsArray(gemini.val)
    IN  [i \in 1..Len(items) |->
            StoryItem(items[i], i, IF features # <<>> THEN features[1] ELSE PyNone)]

\* The per-item results of an LLM answer to the tests prompt
TestResults(stories, gemini) ==
    LET items == IF gemini.exc # "" THEN <<>> ELSE AsArray(gemini.val)
        normalized(i) == _normalize_testcase(items[i],
                             IF stories # <<>> THEN stories[1].id ELSE PyStr(<<"S">>))
    IN  [i \in 1..Len(items) |->
            IF normalized(i).exc # "" THEN normalized(i) ELSE TestCase(normalized(i).val)]

\* The record of a generation call: its input, whether one of the failures
\* happened (not configured, the LLM call or the parse raised, an item was
\* rejected), how many items had passed before the first rejected one, the
\* error that made it fall back, and the output it owes: the baseline of its
\* input after a failure, the items of the LLM's answer otherwise.
GenerationCall(op, input, configured, gemini, results, baseline) ==
    LET rejected == \E i \in 1..Len(results) : results[i].exc # ""
        failed == ~configured \/ gemini.exc # "" \/ rejected
    IN  [called |-> TRUE, op |-> op, input |-> input,
         failed |-> failed,
         accepted |-> AcceptedBefore(results),
         trigger |-> IF ~configured THEN None
                     ELSE IF gemini.exc # "" THEN gemini.exc
                     ELSE IF rejected THEN results[AcceptedBefore(results) + 1].exc
                     ELSE None,
         output |-> IF failed THEN DumpAll(baseline.val)
                    ELSE DumpAll(KeepValid(results))]

OtherCall(op, failed) == [called |-> TRUE, op |-> op, failed |-> failed]

ServerError(e) == [kind |-> "error", status |-> 500, error |-> e]

ErrorBody(e) == [kind |-> "error", status |-> 200, error |-> e]

\* The values LAST_AI_ERROR takes: None, or the exception that made a
\* generation fall back
Errors ==
    {None, "RuntimeError", "JSONDecodeError", "AttributeError", "TypeError",
     "ValueError", "ValidationError"}

\* What the body of generate_stories does (app.py:282-322) for each request,
\* each answer of the LLM and each LAST_AI_ERROR it can find.  The body is a
\* function of these, so it is evaluated once for each.  When Gemini is not
\* configured _gemini_json is not called.
StoriesHandled ==
    {[features |-> features, gemini |-> gemini, configured |-> configured,
      error_before |-> error_before,
      attempt |-> IF configured THEN StoriesAttempt(features, gemini, error_before)
                  ELSE StoriesWithoutGemini(features, error_before),
      call |-> GenerationCall("generate_stories", features, configured, gemini,
                              StoryResults(features, gemini),
                              features_to_baseline_stories(features))] :
        features \in RequestFeatures,
        gemini \in GeminiOutcomes(StoryItems, StoryObjects),
        configured \in BOOLEAN, error_before \in Errors}

\* The same for generate_tests (app.py:378-416)
TestsHandled ==
    {[stories |-> stories, gemini |-> gemini, configured |-> configured,
      error_before |-> error_before,
      attempt |-> IF configured THEN TestsAttempt(stories, gemini, error_before)
                  ELSE TestsWithoutGemini(stories, error_before),
      call |-> GenerationCall("generate_tests", stories, configured, gemini,
                              TestResults(stories, gemini),
                              stories_to_baseline_tests(stories))] :
        stories \in RequestStories,
        gemini \in GeminiOutcomes(TestItems, TestObjects),
        configured \in BOOLEAN, error_before \in Errors}

\* The Features ingest_jira builds from each answer (app.py:131-141), and
\* ingest_mock from each upload (app.py:152-153)
JiraHandled ==
    {[answer |-> answer,
      feats |-> IF answer.exc # "" THEN answer ELSE JiraFeatures(answer.val)] :
        answer \in JiraAnswers}

MockHandled ==
    {[upload |-> upload,
      feats |-> IF upload.exc # "" THEN upload ELSE MockFeatures(upload.val)] :
        upload \in MockUploads}

Init ==
    /\ AppInit
    /\ gemini_model \in BOOLEAN
    /\ args = NotCalled
    /\ ret = NotCalled
    /\ ret2 = NotCalled

\* The end of generate_stories and generate_tests (app.py:319-325, 415-420)
\* after the try/except left `attempt`; an exception of the baseline
\* generator leaves the handler as a 500 response.
Generated(kind, attempt, call) ==
    /\ LAST_AI_ENGINE' = attempt.engine
    /\ LAST_AI_ERROR' = attempt.error
    /\ IF attempt.made.exc # ""
       THEN /\ response' = ServerError(attempt.made.exc)
            /\ UNCHANGED STATE_
            /\ last' = [last EXCEPT !.call = call]
       ELSE /\ STATE_' = Store(STATE_, kind, attempt.made.val)
            /\ response' = [kind |-> kind, status |-> 200,
                            count |-> Len(attempt.made.val),
                            engine |-> LAST_AI_ENGINE',
                            items |-> STATE_'[kind]]
            /\ last' = [last EXCEPT ![kind] = call.output, !.call = call]
    /\ UNCHANGED <<gemini_model, fnVars>>

\* app.py:279-325
generate_stories ==
    \E h \in StoriesHandled :
        /\ h.configured = gemini_model
        /\ h.error_before = LAST_AI_ERROR
        /\ h.configured \/ h.gemini = Raise("RuntimeError")
        /\ Generated("stories", h.attempt, h.call)

\* app.py:372-420
generate_tests ==
    \E h \in TestsHandled :
        /\ h.configured = gemini_model
        /\ h.error_before = LAST_AI_ERROR
        /\ h.configured \/ h.gemini = Raise("RuntimeError")
        /\ Generated("tests", h.attempt, h.call)

\* The end of both ingest handlers (app.py:143-144, 154-155), or the 500
\* response of an exception that left the handler before it
Ingested(op, feats) ==
    IF feats.exc # ""
    THEN /\ response' = ServerError(feats.exc)
         /\ last' = [last EXCEPT !.call = OtherCall(op, TRUE)]
         /\ UNCHANGED STATE_
    ELSE /\ STATE_' = Store(STATE_, "features", feats.val)
         /\ response' = [kind |-> "features", status |-> 200,
                         count |-> Len(STATE_'.features), items |-> STATE_'.features]
         /\ last' = [last EXCEPT !.features = DumpAll(feats.val),
                                 !.call = OtherCall(op, FALSE)]

\* app.py:110-144
ingest_jira ==
    /\ \/ /\ response' = ErrorBody("Missing JIRA_BASE_URL/JIRA_EMAIL/JIRA_API_TOKEN in .env")
          /\ last' = [last EXCEPT !.call = OtherCall("ingest_jira", TRUE)]
          /\ UNCHANGED STATE_
       \/ \E h \in JiraHandled :
              IF h.answer.exc = "HTTPError"
              THEN /\ response' = ErrorBody("Jira request failed")
                   /\ last' = [last EXCEPT !.call = OtherCall("ingest_jira", TRUE)]
                   /\ UNCHANGED STATE_
              ELSE Ingested("ingest_jira", h.feats)
    /\ UNCHANGED <<LAST_AI_ENGINE, LAST_AI_ERROR, gemini_model, fnVars>>

\* app.py:149-155
ingest_mock ==
    \E h \in MockHandled :
        /\ Ingested("ingest_mock", h.feats)
        /\ UNCHANGED <<LAST_AI_ENGINE, LAST_AI_ERROR, gemini_model, fnVars>>

\* app.py:426-438.  export is a plain def, which the framework runs in a
\* worker thread; it only reads STATE.
export ==
    \E fmt \in ExportFormats :
        /\ response' =
               IF fmt = "json"
               THEN [kind |-> "export", status |-> 200, features |-> STATE_.features,
                     stories |-> STATE_.stories, tests |-> STATE_.tests]
               ELSE IF fmt = "md"
               THEN [kind |-> "markdown", status |-> 200,
                     markdown |-> ExportMarkdown(STATE_.stories)]
               ELSE ErrorBody("Unsupported format: " \o fmt)
        /\ last' = [last EXCEPT !.call = OtherCall("export", fmt \notin {"json", "md"})]
        /\ UNCHANGED <<STATE_, LAST_AI_ENGINE, LAST_AI_ERROR, gemini_model, fnVars>>

Next ==
    \/ ingest_jira
    \/ ingest_mock
    \/ generate_stories
    \/ generate_tests
    \/ export

Spec == Init /\ [][Next]_vars

(***************************************************************************)
(* Properties of the service                                               *)
(***************************************************************************)
IsGeneration(call) == call.op \in {"generate_stories", "generate_tests"}

KindOf(call) == IF call.op = "generate_stories" THEN "stories" ELSE "tests"

BaselineOf(call) ==
    IF call.op = "generate_stories" THEN features_to_baseline_stories(call.input)
    ELSE stories_to_baseline_tests(call.input)

\* C1: a generation call (stories or tests) during which the LLM is not
\* configured, the LLM call or the JSON parse raises, or an item is rejected
\* by normalization or by the schema, returns and stores exactly the
\* baseline generator's output for its own input, with engine "fallback",
\* however many items had been accepted before the rejected one.
C1_FailedBatchFallsBackWhole ==
    (IsGeneration(last.call) /\ last.call.failed) =>
        /\ response.status = 200
        /\ response.engine = "fallback"
        /\ response.items = DumpAll(BaselineOf(last.call).val)
        /\ response.count = Len(BaselineOf(last.call).val)
        /\ STATE_[KindOf(last.call)] = DumpAll(BaselineOf(last.call).val)

\* An answer whose first item was accepted and whose second was rejected:
\* the stories returned are the two baseline stories of the request's feature.
C1_Witness ==
    /\ last.call.op = "generate_stories"
    /\ last.call.failed
    /\ last.call.accepted >= 1
    /\ last.call.input = <<FeaturePay>>
    /\ response.engine = "fallback"
    /\ Len(response.items) = 2

\* C2 as stated: after every generation call LAST_AI_ERROR is the error that
\* made this call fall back, and None if the call succeeded on the AI path or
\* went straight to the fallback; the diagnostics never show engine "gemini"
\* together with an error.
C2_DiagnosticsOverwrittenByEveryCall ==
    /\ IsGeneration(last.call) => LAST_AI_ERROR = last.call.trigger
    /\ ~(LAST_AI_ENGINE = "gemini" /\ LAST_AI_ERROR # None)

\* What does hold: a call that fell back because of a failure records its
\* error, and a generate_stories call overwrites both diagnostics.
C2_FailureRecordsItsError ==
    /\ (IsGeneration(last.call) /\ last.call.trigger # None) =>
           (LAST_AI_ENGINE = "fallback" /\ LAST_AI_ERROR = last.call.trigger)
    /\ last.call.op = "generate_stories" => LAST_AI_ERROR = last.call.trigger

\* C3: the engine in the response of a generation call is "gemini" exactly
\* when the items of that response are the items of the LLM's answer and
\* "fallback" exactly when they are the baseline generator's, and the items
\* the call stored are the items it returns; the handlers hold no await, so
\* requests interleave as whole handlers and this holds after each of them.
C3_EngineNamesThePathOfTheItems ==
    IsGeneration(last.call) =>
        /\ response.status = 200
        /\ response.engine = (IF last.call.failed THEN "fallback" ELSE "gemini")
        /\ response.items = last.call.output
        /\ STATE_[KindOf(last.call)] = response.items
        /\ LAST_AI_ENGINE = response.engine

\* A tests request served on the AI path after a stories request that fell
\* back: both wrote the shared engine variable.
C3_Witness ==
    /\ last.call.op = "generate_tests"
    /\ ~last.call.failed
    /\ response.engine = "gemini"
    /\ response.items # <<>>
    /\ LAST_AI_ERROR # None
    /\ STATE_.stories # <<>>

\* C4: each kind of STATE holds exactly the output of the most recent
\* successful ingest or generation call for that kind (empty if none), with
\* nothing merged from earlier calls; a kind changes only in a call that
\* answers with the new items of that kind, so a call for one kind leaves
\* the other two, and an ingest that reports an error and an export leave
\* all three.
C4_StateHoldsLastOutputs ==
    /\ [](\A kind \in Kinds : STATE_[kind] = last[kind])
    /\ [][\A kind \in Kinds :
              STATE_'[kind] # STATE_[kind] =>
                  (response'.kind = kind /\ response'.items = STATE_'[kind])]_vars

\* All three kinds written, and then an ingest that reported an error.
C4_Witness ==
    /\ STATE_.features # <<>>
    /\ STATE_.stories # <<>>
    /\ STATE_.tests # <<>>
    /\ last.call.op = "ingest_jira"
    /\ last.call.failed
    /\ response.kind = "error"

====
